---- MODULE Spec2Model ----
(***************************************************************************)
(* A model of calculate_protected_CP.py: the presence test guided by the   *)
(* inclusion matrix, the geometric aggregation per (MPA, ecosection), the  *)
(* HU/CP interaction scoring and the three output tables.                  *)
(*                                                                         *)
(* Conventions.                                                            *)
(*  - A Python float is an exact rational <<numerator, denominator>> with  *)
(*    a positive denominator; areas read from the geometry engine are      *)
(*    integers n, lifted to <<n, 1>> where they enter float arithmetic.    *)
(*  - A dataset name such as mpatt_hu_trawl_data is the sequence of its    *)
(*    underscore-delimited segments, <<"mpatt","hu","trawl","data">>, so   *)
(*    that split('_') and '_'.join are operations on sequences.            *)
(*  - A Python dict is a function; its keys are its DOMAIN; {} is <<>>.    *)
(*  - Python's None is the string "None" where the other values of the     *)
(*    variable are strings, and an absent key otherwise.                   *)
(***************************************************************************)
EXTENDS Integers, Sequences, FiniteSets, TLC

VARIABLES
    override_y, override_n, override_u,   \* configuration globals
    inclusion_matrix,                     \* readMPAInclusionMatrix's result
    pc,                                   \* position of the script
    probe, included,                      \* one call of shouldInclude and its result
    i_list, counts, eff_score,            \* an interaction list, its counts and score
    mpa_fc,                               \* the MPA/ecosection layer prepareMPAs builds
    layer_i,                              \* index in layer_list of the layer being processed
    intersected, processed_layer,         \* process_geometry's intersect and dissolved tables
    mpa_presence, sliver_freq,            \* calculate_presence's last result
    hu_in_mpas, cp_in_mpas, percent_overlap,
    imatrix,                              \* loadInteractionsMatrix's result
    cp_in_mpa_i, o_table_1, o_table_2,
    written,                              \* output file -> "absent", "partial", "complete"
    completed,                            \* the stages of the script that have returned
    error,                                \* the exception that ended the run, if any
    mpa_layers,                           \* the fields of each mpatt_mpa_ layer of the map document
    scaling_attribute,                    \* configuration global
    scaling_attribute_file,               \* configuration global: None or the file's rows
    scaling_dict,                         \* buildScalingDict's result, or None
    loaded,                               \* one call of loadLayer: what it did to the layer
    layer_presence_threshold_file,        \* configuration global: None or the file's rows
    threshold_dict,                       \* buildThresholdDict's result, or None
    lyr_threshold,                        \* the presence threshold set for a layer, or None
    cleanUpTempData,                      \* configuration global
    workspace,                            \* the feature classes in the working geodatabase
    first_call                            \* what an earlier call of calculate_presence returned

vars == <<override_y, override_n, override_u, inclusion_matrix, pc,
          probe, included, i_list, counts, eff_score,
          mpa_fc, layer_i, intersected, processed_layer, mpa_presence, sliver_freq,
          hu_in_mpas, cp_in_mpas, percent_overlap, imatrix,
          cp_in_mpa_i, o_table_1, o_table_2, written, completed, error,
          mpa_layers, scaling_attribute, scaling_attribute_file, scaling_dict, loaded,
          layer_presence_threshold_file, threshold_dict, lyr_threshold,
          cleanUpTempData, workspace, first_call>>

----------------------------------------------------------------------------
(* Bounds of the model *)

MaxInteractions == 4

----------------------------------------------------------------------------
(* Float arithmetic on exact rationals *)

Rat(n) == <<n, 1>>

RatMul(a, b) == <<a[1] * b[1], a[2] * b[2]>>

RatDiv(a, b) == <<a[1] * b[2], a[2] * b[1]>>

RatAdd(a, b) == <<a[1] * b[2] + b[1] * a[2], a[2] * b[2]>>

RatEq(a, b) == a[1] * b[2] = b[1] * a[2]

RatLE(a, b) == a[1] * b[2] <= b[1] * a[2]

RatGT_ge(a, b) == a[1] * b[2] >= b[1] * a[2]

RatGT(a, b) == a[1] * b[2] > b[1] * a[2]

----------------------------------------------------------------------------
(* Names *)

MPANames == {"Alpha", "Beta"}

HU_trawl == <<"mpatt", "hu", "trawl", "data">>

CP_reef == <<"mpatt", "eco", "fish", "reef", "data">>

InclusionValues == {"Y", "N", "U", "None"}

Booleans == {TRUE, FALSE}

OverrideUValues == {"True", "False", "None"}

cp_presence_threshold == <<5, 100>>

hu_presence_threshold == <<5, 100>>

----------------------------------------------------------------------------
(* shouldInclude *)

shouldInclude_noStrict(pct_in_mpa, threshold, im, fc, mpa) ==
    IF mpa \notin DOMAIN im THEN RatGT_ge(pct_in_mpa, threshold)
    ELSE IF fc \notin DOMAIN im[mpa] THEN RatGT_ge(pct_in_mpa, threshold)
    ELSE LET i_val == im[mpa][fc] IN
         IF i_val = "None" THEN RatGT_ge(pct_in_mpa, threshold)
         ELSE IF i_val = "Y" /\ ~override_y THEN TRUE
         ELSE IF i_val = "N" /\ ~override_n THEN FALSE
         ELSE IF i_val = "U" /\ override_u # "None" THEN override_u = "True"
         ELSE RatGT_ge(pct_in_mpa, threshold)

shouldInclude(pct_in_mpa, threshold, im, fc, mpa) ==
    IF mpa \notin DOMAIN im THEN RatGT(pct_in_mpa, threshold)
    ELSE IF fc \notin DOMAIN im[mpa] THEN RatGT(pct_in_mpa, threshold)
    ELSE LET i_val == im[mpa][fc] IN
         IF i_val = "None" THEN RatGT(pct_in_mpa, threshold)
         ELSE IF i_val = "Y" /\ ~override_y THEN TRUE
         ELSE IF i_val = "N" /\ ~override_n THEN FALSE
         ELSE IF i_val = "U" /\ override_u # "None" THEN override_u = "True"
         ELSE RatGT(pct_in_mpa, threshold)

----------------------------------------------------------------------------
(* calcEffectivenessScore and countInteractions; scores are hundredths *)

calcEffectivenessScore_swapped(num_high, num_mod, num_low) ==
    IF num_high > 0 \/ num_mod > 2 THEN <<0, 100>>
    ELSE IF num_mod = 2 THEN <<60, 100>>
    ELSE IF num_mod = 1 THEN <<24, 100>>
    ELSE IF num_low > 0 THEN <<85, 100>>
    ELSE <<100, 100>>

calcEffectivenessScore(num_high, num_mod, num_low) ==
    IF num_high > 0 \/ num_mod > 2 THEN <<0, 100>>
    ELSE IF num_mod = 2 THEN <<24, 100>>
    ELSE IF num_mod = 1 THEN <<60, 100>>
    ELSE IF num_low > 0 THEN <<85, 100>>
    ELSE <<100, 100>>

RECURSIVE countFrom(_, _, _)
countFrom(l, k, acc) ==
    IF k > Len(l) THEN acc
    ELSE countFrom(l, k + 1,
             IF l[k] = "HIGH" THEN <<acc[1] + 1, acc[2], acc[3]>>
             ELSE IF l[k] = "MODERATE" THEN <<acc[1], acc[2] + 1, acc[3]>>
             ELSE IF l[k] = "LOW" THEN <<acc[1], acc[2], acc[3] + 1>>
             ELSE acc)

countInteractions_lowAsMod(l) ==
    LET c == countFrom(l, 1, <<0, 0, 0>>) IN <<c[1], c[2] + c[3], 0>>

countInteractions(l) == countFrom(l, 1, <<0, 0, 0>>)

----------------------------------------------------------------------------
(* Sums *)

RECURSIVE SumSeq(_)
SumSeq(s) == IF s = <<>> THEN 0 ELSE s[1] + SumSeq(Tail(s))

RECURSIVE SumSet(_, _)
SumSet(f, S) ==
    IF S = {} THEN 0
    ELSE LET x == CHOOSE y \in S : TRUE IN f[x] + SumSet(f, S \ {x})

----------------------------------------------------------------------------
(* The map document's layers, as the geometry engine reports them *)

\* the ecosection names prepareOutputTable1 iterates over
ecosections ==
    <<"Johnstone Strait", "Continental Slope", "Dixon Entrance",
      "Strait of Georgia", "Juan de Fuca Strait", "Queen Charlotte Strait",
      "North Coast Fjords", "Hecate Strait", "Queen Charlotte Sound",
      "Vancouver Island Shelf", "Transitional Pacific", "Subarctic Pacific">>

\* the merged MPA features with their areas
mpas_merged ==
    <<[NAME_E |-> "Alpha", area |-> 100], [NAME_E |-> "Beta", area |-> 50]>>

\* the merged MPAs intersected with the subregions layer
mpa_sub_intersect ==
    <<[NAME_E |-> "Alpha", subregion |-> "NC", Shape_Area |-> 30],
      [NAME_E |-> "Alpha", subregion |-> "CC", Shape_Area |-> 70],
      [NAME_E |-> "Beta", subregion |-> "NC", Shape_Area |-> 50]>>

\* the merged MPAs intersected with the ecosections layer
mpa_ecosect_intersect ==
    <<[NAME_E |-> "Alpha", ecosection |-> "Hecate Strait", area |-> 60],
      [NAME_E |-> "Alpha", ecosection |-> "Dixon Entrance", area |-> 40],
      [NAME_E |-> "Beta", ecosection |-> "Hecate Strait", area |-> 50]>>

\* the subregion layers mpatt_rgn_subregion_XX of the map document
rlayers == {"CC", "NC", "NCVI", "HG"}

\* the HU and CP layers of the map document, in the document's order
layer_list == <<HU_trawl, CP_reef>>

\* the areas of a layer's features after loadLayer's calculateArea
FeatureAreas(layer) == IF layer = HU_trawl THEN <<20, 30>> ELSE <<50>>

calculateTotalArea(areas) == SumSeq(areas)

----------------------------------------------------------------------------
(* prepareMPAs: subregion by largest overlap, total area, dissolve by     *)
(* (MPA, ecosection), section area                                        *)

\* the loop keeping the last of several rows of equal largest area
RECURSIVE largestOverlap_lastOnTie(_, _, _, _, _)
largestOverlap_lastOnTie(rows, k, name, shpArea, subr) ==
    IF k > Len(rows) THEN subr
    ELSE IF rows[k].NAME_E = name /\ rows[k].Shape_Area >= shpArea /\ rows[k].Shape_Area > 0
         THEN largestOverlap_lastOnTie(rows, k + 1, name, rows[k].Shape_Area, rows[k].subregion)
         ELSE largestOverlap_lastOnTie(rows, k + 1, name, shpArea, subr)

RECURSIVE largestOverlap(_, _, _, _, _)
largestOverlap(rows, k, name, shpArea, subr) ==
    IF k > Len(rows) THEN subr
    ELSE IF rows[k].NAME_E = name /\ rows[k].Shape_Area > shpArea
         THEN largestOverlap(rows, k + 1, name, rows[k].Shape_Area, rows[k].subregion)
         ELSE largestOverlap(rows, k + 1, name, shpArea, subr)

\* the name-field test looking at the first layer only
prepareMPAs_error_firstLayer(layers) ==
    IF layers[1] \cap {"NAME_E", "Name_E"} = {} THEN "ValueError" ELSE "none"

\* lines 334-342: the exception raised, before the merge, for a layer none
\* of whose fields is in mpa_name_fields
prepareMPAs_error(layers) ==
    IF \E k \in 1..Len(layers) : layers[k] \cap {"NAME_E", "Name_E"} = {}
    THEN "ValueError" ELSE "none"

prepareMPAs(merged, sub_rows, eco_rows) ==
    LET keys == {<<eco_rows[k].NAME_E, eco_rows[k].ecosection>> : k \in 1..Len(eco_rows)}
        first(name) == CHOOSE k \in 1..Len(merged) :
                          /\ merged[k].NAME_E = name
                          /\ \A j \in 1..(k - 1) : merged[j].NAME_E # name
    IN  [key \in keys |->
            [subregion_mpa |-> largestOverlap(sub_rows, 1, key[1], 0, "None"),
             etp_mpa_area_TOTAL |-> merged[first(key[1])].area,
             etp_mpa_area_SECTION |->
                 SumSeq([k \in 1..Len(eco_rows) |->
                            IF <<eco_rows[k].NAME_E, eco_rows[k].ecosection>> = key
                            THEN eco_rows[k].area ELSE 0])]]

----------------------------------------------------------------------------
(* process_geometry.  intersect is Intersect_analysis' output: a sequence *)
(* of pieces [NAME_E, ecosection, shape_area, etp_scaling]; the result is *)
(* the dissolved table, one row per (MPA, ecosection)                     *)

DissolvedRow(intersect, bc_total_area, mpafc, key, denominator) ==
    LET clipped == SumSeq([k \in 1..Len(intersect) |->
                     IF <<intersect[k].NAME_E, intersect[k].ecosection>> = key
                     THEN intersect[k].shape_area * intersect[k].etp_scaling
                     ELSE 0])
    IN  [etp_ac_area_adj |-> clipped,
         etp_bc_total_area |-> bc_total_area,
         etp_mpa_area_TOTAL |-> mpafc[key].etp_mpa_area_TOTAL,
         etp_mpa_area_SECTION |-> mpafc[key].etp_mpa_area_SECTION,
         subregion_mpa |-> mpafc[key].subregion_mpa,
         pct_of_mpa |-> RatDiv(Rat(clipped), Rat(mpafc[key][denominator])),
         pct_of_total |-> RatDiv(Rat(clipped), Rat(bc_total_area))]

process_geometry_sectionArea(intersect, bc_total_area, mpafc) ==
    LET keys == {<<intersect[k].NAME_E, intersect[k].ecosection>> : k \in 1..Len(intersect)}
        rows == [key \in keys |->
                    DissolvedRow(intersect, bc_total_area, mpafc, key, "etp_mpa_area_SECTION")]
        clip == [key \in keys |-> rows[key].etp_ac_area_adj]
        sum_area(mpa) == SumSet(clip, {key \in keys : key[1] = mpa})
    IN  [key \in keys |->
            [etp_ac_area_adj_mpaTotal |-> sum_area(key[1]),
             pct_of_mpa_Total |-> RatDiv(Rat(sum_area(key[1])),
                                         Rat(rows[key].etp_mpa_area_TOTAL))]
            @@ rows[key]]

process_geometry_noTotal(intersect, bc_total_area, mpafc) ==
    LET keys == {<<intersect[k].NAME_E, intersect[k].ecosection>> : k \in 1..Len(intersect)}
        rows == [key \in keys |->
                    DissolvedRow(intersect, bc_total_area, mpafc, key, "etp_mpa_area_TOTAL")]
    IN  [key \in keys |->
            [etp_ac_area_adj_mpaTotal |-> rows[key].etp_ac_area_adj,
             pct_of_mpa_Total |-> RatDiv(Rat(rows[key].etp_ac_area_adj),
                                         Rat(rows[key].etp_mpa_area_TOTAL))]
            @@ rows[key]]

process_geometry(intersect, bc_total_area, mpafc) ==
    LET keys == {<<intersect[k].NAME_E, intersect[k].ecosection>> : k \in 1..Len(intersect)}
        rows == [key \in keys |->
                    DissolvedRow(intersect, bc_total_area, mpafc, key, "etp_mpa_area_TOTAL")]
        clip == [key \in keys |-> rows[key].etp_ac_area_adj]
        sum_area(mpa) == SumSet(clip, {key \in keys : key[1] = mpa})
    IN  [key \in keys |->
            [etp_ac_area_adj_mpaTotal |-> sum_area(key[1]),
             pct_of_mpa_Total |-> RatDiv(Rat(sum_area(key[1])),
                                         Rat(rows[key].etp_mpa_area_TOTAL))]
            @@ rows[key]]

----------------------------------------------------------------------------
(* calculate_presence: the presence map of the rows that pass             *)
(* shouldInclude, the sliver map of every MPA with a row, and the         *)
(* dissolved table process_geometry left in the workspace                 *)

PresenceRecord(row, region_area, area_field) ==
    [subregion |-> row.subregion_mpa,
     clip_area |-> row.etp_ac_area_adj,
     orig_area |-> row.etp_bc_total_area,
     mpa_area |-> row[area_field],
     region_area |-> region_area,
     pct_in_mpa |-> row.pct_of_mpa,
     pct_of_region |-> RatDiv(Rat(row.etp_ac_area_adj), Rat(region_area)),
     pct_of_total |-> row.pct_of_total]

PresenceMaps(working_layer, processed, region_area, threshold, subregion, im, test_field, area_field) ==
    LET datasetname == IF subregion # "None" THEN working_layer
                       ELSE SubSeq(working_layer, 1, Len(working_layer) - 1)
        passed == {key \in DOMAIN processed :
                     shouldInclude(processed[key][test_field], threshold, im,
                                   datasetname, key[1])}
        row_of(mpa) == CHOOSE key \in DOMAIN processed : key[1] = mpa
    IN  [mpas |->
            [mpa \in {key[1] : key \in passed} |->
                [ecosect \in {key[2] : key \in {q \in passed : q[1] = mpa}} |->
                    PresenceRecord(processed[<<mpa, ecosect>>], region_area, area_field)]],
         sliver_freq |->
            [mpa \in {key[1] : key \in DOMAIN processed} |->
                [pct_overlap_cphu_mpa |-> processed[row_of(mpa)].pct_of_mpa_Total]],
         processed_layer |-> processed]

calculate_presence_rowFraction(working_layer, areas, intersect, threshold, subregion, im, mpafc) ==
    PresenceMaps(working_layer,
                 process_geometry(intersect, calculateTotalArea(areas), mpafc),
                 calculateTotalArea(areas), threshold, subregion, im,
                 "pct_of_mpa", "etp_mpa_area_TOTAL")

calculate_presence_sectionArea(working_layer, areas, intersect, threshold, subregion, im, mpafc) ==
    PresenceMaps(working_layer,
                 process_geometry(intersect, calculateTotalArea(areas), mpafc),
                 calculateTotalArea(areas), threshold, subregion, im,
                 "pct_of_mpa_Total", "etp_mpa_area_SECTION")

\* the sliver map recording only the MPAs that were included
calculate_presence_sliverOfIncluded(working_layer, areas, intersect, threshold, subregion, im, mpafc) ==
    LET r == PresenceMaps(working_layer,
                          process_geometry(intersect, calculateTotalArea(areas), mpafc),
                          calculateTotalArea(areas), threshold, subregion, im,
                          "pct_of_mpa_Total", "etp_mpa_area_TOTAL")
    IN  [r EXCEPT !.sliver_freq = [mpa \in DOMAIN r.mpas |-> r.sliver_freq[mpa]]]

calculate_presence(working_layer, areas, intersect, threshold, subregion, im, mpafc) ==
    PresenceMaps(working_layer,
                 process_geometry(intersect, calculateTotalArea(areas), mpafc),
                 calculateTotalArea(areas), threshold, subregion, im,
                 "pct_of_mpa_Total", "etp_mpa_area_TOTAL")

----------------------------------------------------------------------------
(* Values of the variables a specification does not use *)

ConfigDefault ==
    /\ override_y = FALSE
    /\ override_n = TRUE
    /\ override_u = "None"

ProbeIdle ==
    /\ probe = <<>>
    /\ included = FALSE

ScoreIdle ==
    /\ i_list = <<>>
    /\ counts = <<0, 0, 0>>
    /\ eff_score = <<100, 100>>

OutputFiles == {"table1", "table2", "table3"}

GeometryIdle ==
    /\ intersected = <<>>
    /\ processed_layer = <<>>
    /\ mpa_presence = <<>>
    /\ sliver_freq = <<>>

PipelineIdle ==
    /\ hu_in_mpas = <<>>
    /\ cp_in_mpas = <<>>
    /\ percent_overlap = <<>>
    /\ imatrix = <<>>
    /\ cp_in_mpa_i = <<>>
    /\ o_table_1 = <<>>
    /\ o_table_2 = <<>>
    /\ written = [f \in OutputFiles |-> "absent"]
    /\ completed = <<>>
    /\ error = "none"

\* the configured name fields and the MPA layers of the map document, each
\* the set of its field names
mpa_name_fields == {"NAME_E", "Name_E"}

\* an optional value: None is <<>>, a value x is <<x>>
None == <<>>

Some(x) == <<x>>

ThresholdIdle ==
    /\ layer_presence_threshold_file = None
    /\ threshold_dict = None
    /\ lyr_threshold = None

RerunIdle ==
    /\ cleanUpTempData = FALSE
    /\ workspace = {}
    /\ first_call = <<>>

LoadIdle ==
    /\ mpa_layers = <<{"OBJECTID", "NAME_E"}, {"OBJECTID", "Name_E"}>>
    /\ scaling_attribute = "None"
    /\ scaling_attribute_file = None
    /\ scaling_dict = None
    /\ loaded = <<>>
    /\ ThresholdIdle
    /\ RerunIdle

scalingVars == <<mpa_layers, scaling_attribute, scaling_attribute_file, scaling_dict, loaded>>

thresholdVars == <<layer_presence_threshold_file, threshold_dict, lyr_threshold>>

rerunVars == <<cleanUpTempData, workspace, first_call>>

loadVars == <<scalingVars, thresholdVars, rerunVars>>

configVars == <<override_y, override_n, override_u, inclusion_matrix>>

geometryVars == <<intersected, processed_layer, mpa_presence, sliver_freq>>

pipelineVars == <<hu_in_mpas, cp_in_mpas, percent_overlap, imatrix,
                  cp_in_mpa_i, o_table_1, o_table_2, written, completed, error>>

probeVars == <<probe, included>>

scoreVars == <<i_list, counts, eff_score>>

----------------------------------------------------------------------------
(* SpecInclude: one call of shouldInclude on drawn arguments *)

ProbeLayers == {HU_trawl}

ProbePcts == {<<3, 100>>, <<5, 100>>, <<6, 100>>}

\* every matrix a CSV with these rows and columns can hold: the rows are a
\* subset of the MPAs, the header a subset of the layers
ProbeMatrices ==
    UNION { [R -> [C -> InclusionValues]] :
            <<R, C>> \in (SUBSET MPANames) \X (SUBSET ProbeLayers) }

InitInclude ==
    /\ override_y \in Booleans
    /\ override_n \in Booleans
    /\ override_u \in OverrideUValues
    /\ inclusion_matrix \in ProbeMatrices
    /\ probe \in [pct_in_mpa : ProbePcts, threshold : {hu_presence_threshold},
                  fc : ProbeLayers, mpa : MPANames]
    /\ included = FALSE
    /\ pc = "shouldInclude"
    /\ ScoreIdle
    /\ mpa_fc = <<>>
    /\ layer_i = 0
    /\ GeometryIdle
    /\ PipelineIdle
    /\ LoadIdle

CallShouldInclude ==
    /\ pc = "shouldInclude"
    /\ included' = shouldInclude(probe.pct_in_mpa, probe.threshold,
                                 inclusion_matrix, probe.fc, probe.mpa)
    /\ pc' = "returned"
    /\ UNCHANGED <<loadVars, configVars, probe, scoreVars, mpa_fc, layer_i, geometryVars, pipelineVars>>

NextInclude == CallShouldInclude

SpecInclude == InitInclude /\ [][NextInclude]_vars

----------------------------------------------------------------------------
(* SpecScore: an interaction list grows by one entry at a time           *)
(* (identifyInteractions' append) and is scored as prepareOutputTable1   *)
(* scores it                                                             *)

Severities == {"LOW", "MODERATE", "HIGH"}

\* a value of the matrix's fourth column that is none of the severities
MatrixValues == Severities \cup {"NEGLIGIBLE"}

InitScore ==
    /\ ConfigDefault
    /\ inclusion_matrix = <<>>
    /\ ProbeIdle
    /\ pc = "score"
    /\ i_list = <<>>
    /\ counts = countInteractions(<<>>)
    /\ eff_score = calcEffectivenessScore(0, 0, 0)
    /\ mpa_fc = <<>>
    /\ layer_i = 0
    /\ GeometryIdle
    /\ PipelineIdle
    /\ LoadIdle

AppendAndScore(interaction) ==
    /\ pc = "score"
    /\ Len(i_list) < MaxInteractions
    /\ i_list' = Append(i_list, interaction)
    /\ counts' = countInteractions(i_list')
    /\ eff_score' = calcEffectivenessScore(counts'[1], counts'[2], counts'[3])
    /\ UNCHANGED <<loadVars, configVars, probeVars, pc, mpa_fc, layer_i, geometryVars, pipelineVars>>

NextScore == \E interaction \in MatrixValues : AppendAndScore(interaction)

SpecScore == InitScore /\ [][NextScore]_vars

----------------------------------------------------------------------------
(* The per-layer settings of the loop over layer_list *)

layer_type(working_layer) ==
    IF working_layer[1] = "mpatt" /\ working_layer[2] = "eco" THEN "cp" ELSE "hu"

layer_threshold(working_layer) ==
    IF layer_type(working_layer) = "hu" THEN hu_presence_threshold
    ELSE cp_presence_threshold

\* the subregion tag: the name's last segment if a subregion layer of that
\* name is loaded, else the sentinel "region"
layer_subregion(working_layer) ==
    IF working_layer[Len(working_layer)] \in rlayers
    THEN working_layer[Len(working_layer)] ELSE "region"

\* the tables Intersect_analysis can return: up to n pieces, each from a set
\* of candidate pieces
IntersectOutputs(candidates, n) == UNION {[1..k -> candidates] : k \in 0..n}

----------------------------------------------------------------------------
(* SpecPresence: one call of calculate_presence on a loaded layer *)

MaxPieces == 2

PresenceMatrices ==
    {<<>>} \cup {[mpa \in {"Alpha"} |-> [fc \in {HU_trawl} |-> v]] : v \in InclusionValues}

\* a piece lies in one (MPA, ecosection) polygon of the MPA layer; its area
\* times its scaling value is below, or with scaling 2 above, 5% of an MPA
PresencePieces ==
    {[NAME_E |-> key[1], ecosection |-> key[2], shape_area |-> 3, etp_scaling |-> sc] :
        <<key, sc>> \in (DOMAIN prepareMPAs(mpas_merged, mpa_sub_intersect,
                                            mpa_ecosect_intersect)) \X {1, 2}}

InitPresence ==
    /\ override_y \in Booleans
    /\ override_n \in Booleans
    /\ override_u \in OverrideUValues
    /\ inclusion_matrix \in PresenceMatrices
    /\ ProbeIdle
    /\ ScoreIdle
    /\ mpa_fc = prepareMPAs(mpas_merged, mpa_sub_intersect, mpa_ecosect_intersect)
    /\ layer_i \in 1..Len(layer_list)
    /\ GeometryIdle
    /\ PipelineIdle
    /\ LoadIdle
    /\ pc = "calculate_presence"

CallCalculatePresence(intersect) ==
    /\ pc = "calculate_presence"
    /\ LET working_layer == layer_list[layer_i]
           r == calculate_presence(working_layer, FeatureAreas(working_layer), intersect,
                                   layer_threshold(working_layer),
                                   layer_subregion(working_layer),
                                   inclusion_matrix, mpa_fc)
       IN  /\ intersected' = intersect
           /\ processed_layer' = r.processed_layer
           /\ mpa_presence' = r.mpas
           /\ sliver_freq' = r.sliver_freq
    /\ pc' = "presence_returned"
    /\ UNCHANGED <<loadVars, configVars, probeVars, scoreVars, mpa_fc, layer_i, pipelineVars>>

NextPresence ==
    \E intersect \in IntersectOutputs(PresencePieces, MaxPieces) :
        CallCalculatePresence(intersect)

SpecPresence == InitPresence /\ [][NextPresence]_vars

----------------------------------------------------------------------------
(* SpecSubregion: one call of prepareMPAs on the merged MPAs, under every  *)
(* table of up to MaxSubRows rows that intersecting them with the          *)
(* subregions layer can give                                               *)

MaxSubRows == 3

\* a row of mpa_sub_intersect: an MPA, a subregion and the area of their
\* overlap, which can be zero
SubRows == [NAME_E : {"Alpha", "Beta"}, subregion : {"NC", "CC"}, Shape_Area : {0, 30, 70}]

SubIntersects == UNION {[1..n -> SubRows] : n \in 0..MaxSubRows}

InitSubregion ==
    /\ ConfigDefault
    /\ inclusion_matrix = <<>>
    /\ probe \in [sub_rows : SubIntersects]
    /\ included = FALSE
    /\ ScoreIdle
    /\ mpa_fc = <<>>
    /\ layer_i = 0
    /\ GeometryIdle
    /\ PipelineIdle
    /\ LoadIdle
    /\ pc = "prepareMPAs"

CallPrepareMPAs ==
    /\ pc = "prepareMPAs"
    /\ mpa_fc' = prepareMPAs(mpas_merged, probe.sub_rows, mpa_ecosect_intersect)
    /\ pc' = "mpas_prepared"
    /\ UNCHANGED <<loadVars, configVars, probeVars, scoreVars, layer_i, geometryVars,
                   pipelineVars>>

NextSubregion == CallPrepareMPAs

SpecSubregion == InitSubregion /\ [][NextSubregion]_vars

----------------------------------------------------------------------------
(* SpecRerun: calculate_presence called twice in succession on the same    *)
(* working layer and the same MPA layer, with the working geodatabase and  *)
(* the cleanup setting. The geometry of the two layers is the same in both *)
(* calls, so Intersect_analysis returns the same table in both.            *)

\* the MPA/ecosection feature class prepareMPAs leaves in the geodatabase
final_mpa_fc_name == <<"mpas">>

\* the name of a table process_geometry derives from base_layer
derived(base_layer, suffix) == Append(base_layer, suffix)

\* the feature classes ListFeatureClasses(base_layer + '_*') lists
ListFeatureClasses(ws, base_layer) ==
    {layer \in ws : /\ Len(layer) > Len(base_layer)
                     /\ SubSeq(layer, 1, Len(base_layer)) = base_layer}

\* the working geodatabase after process_geometry: the intersect and the
\* dissolved table are written (overwriteOutput is True), and with cleanup
\* every table named base_layer_* but the dissolved one is deleted
process_geometry_workspace(ws, base_layer, cleanup) ==
    LET working_dissolved == derived(base_layer, "Dissolved")
        made == ws \cup {derived(base_layer, "Intersect"), working_dissolved}
    IN  IF cleanup
        THEN made \ (ListFeatureClasses(made, base_layer) \ {working_dissolved})
        ELSE made

\* the working geodatabase with the working layer deleted whatever the
\* cleanup setting
calculate_presence_workspace_alwaysDeletes(ws, working_layer, cleanup) ==
    process_geometry_workspace(ws, working_layer, cleanup)
        \ {working_layer, derived(working_layer, "Dissolved")}

\* the working geodatabase after calculate_presence: with cleanup the
\* working layer and the dissolved table are deleted, lines 819-821
calculate_presence_workspace(ws, working_layer, cleanup) ==
    LET after == process_geometry_workspace(ws, working_layer, cleanup)
    IN  IF cleanup
        THEN after \ {working_layer, derived(working_layer, "Dissolved")}
        ELSE after

\* the exception of calculate_presence on a working layer that is not in
\* the geodatabase: the SearchCursor of calculateTotalArea cannot open it
calculate_presence_error(ws, working_layer) ==
    IF working_layer \in ws THEN "none" ELSE "RuntimeError"

InitRerun ==
    /\ ConfigDefault
    /\ inclusion_matrix \in PresenceMatrices
    /\ ProbeIdle
    /\ ScoreIdle
    /\ mpa_fc = prepareMPAs(mpas_merged, mpa_sub_intersect, mpa_ecosect_intersect)
    /\ layer_i \in 1..Len(layer_list)
    /\ GeometryIdle
    /\ PipelineIdle
    /\ mpa_layers = <<{"OBJECTID", "NAME_E"}, {"OBJECTID", "Name_E"}>>
    /\ scaling_attribute = "None"
    /\ scaling_attribute_file = None
    /\ scaling_dict = None
    /\ loaded = <<>>
    /\ ThresholdIdle
    /\ cleanUpTempData \in BOOLEAN
    /\ workspace = {layer_list[layer_i], final_mpa_fc_name}
    /\ first_call = <<>>
    /\ pc = "calculate_presence"

\* one call of calculate_presence on layer_list[layer_i]; intersect is the
\* table Intersect_analysis returns for the two layers
CallOnWorkspace(intersect, next_pc) ==
    LET working_layer == layer_list[layer_i]
    IN  IF calculate_presence_error(workspace, working_layer) = "none"
        THEN LET r == calculate_presence(working_layer, FeatureAreas(working_layer),
                                         intersect, layer_threshold(working_layer),
                                         layer_subregion(working_layer),
                                         inclusion_matrix, mpa_fc)
             IN  /\ intersected' = intersect
                 /\ processed_layer' = r.processed_layer
                 /\ mpa_presence' = r.mpas
                 /\ sliver_freq' = r.sliver_freq
                 /\ workspace' = calculate_presence_workspace(workspace, working_layer,
                                                              cleanUpTempData)
                 /\ pc' = next_pc
                 /\ error' = error
        ELSE /\ UNCHANGED <<geometryVars, workspace>>
             /\ pc' = "aborted"
             /\ error' = calculate_presence_error(workspace, working_layer)

FirstCall(intersect) ==
    /\ pc = "calculate_presence"
    /\ CallOnWorkspace(intersect, "calculate_presence_again")
    /\ first_call' = [mpas |-> mpa_presence', sliver_freq |-> sliver_freq']
    /\ UNCHANGED <<scalingVars, thresholdVars, cleanUpTempData, configVars, probeVars,
                   scoreVars, mpa_fc, layer_i, hu_in_mpas, cp_in_mpas, percent_overlap,
                   imatrix, cp_in_mpa_i, o_table_1, o_table_2, written, completed>>

SecondCall ==
    /\ pc = "calculate_presence_again"
    /\ CallOnWorkspace(intersected, "presence_returned")
    /\ UNCHANGED <<scalingVars, thresholdVars, cleanUpTempData, first_call, configVars,
                   probeVars, scoreVars, mpa_fc, layer_i, hu_in_mpas, cp_in_mpas,
                   percent_overlap, imatrix, cp_in_mpa_i, o_table_1, o_table_2, written,
                   completed>>

NextRerun ==
    \/ \E intersect \in IntersectOutputs(PresencePieces, MaxPieces) : FirstCall(intersect)
    \/ SecondCall

SpecRerun == InitRerun /\ [][NextRerun]_vars

----------------------------------------------------------------------------
(* Dicts *)

Get(d, k) == IF k \in DOMAIN d THEN d[k] ELSE <<>>

Put(d, k, v) == [x \in DOMAIN d \cup {k} |-> IF x = k THEN v ELSE d[x]]

RECURSIVE SeqOfSet(_)
SeqOfSet(S) ==
    IF S = {} THEN <<>>
    ELSE LET x == CHOOSE y \in S : TRUE IN <<x>> \o SeqOfSet(S \ {x})

RECURSIVE RatSumSet(_, _)
RatSumSet(f, S) ==
    IF S = {} THEN <<0, 1>>
    ELSE LET x == CHOOSE y \in S : TRUE IN RatAdd(RatSumSet(f, S \ {x}), f[x])

----------------------------------------------------------------------------
(* The loop over layer_list: what one iteration adds to hu_in_mpas,       *)
(* cp_in_mpas and percent_overlap                                         *)

\* the layer's name as a key: without its subregion tag when it has one
stripped_name(working_layer) ==
    IF layer_subregion(working_layer) # "region"
    THEN SubSeq(working_layer, 1, Len(working_layer) - 1)
    ELSE working_layer

merge_hu(hu, presence, name) ==
    [mpa \in DOMAIN hu \cup DOMAIN presence |->
        IF mpa \in DOMAIN presence THEN Put(Get(hu, mpa), name, presence[mpa])
        ELSE hu[mpa]]

merge_cp(cp, presence, name) ==
    [mpa \in DOMAIN cp \cup DOMAIN presence |->
        IF mpa \in DOMAIN presence
        THEN [ecosect \in DOMAIN Get(cp, mpa) \cup DOMAIN presence[mpa] |->
                IF ecosect \in DOMAIN presence[mpa]
                THEN Put(Get(Get(cp, mpa), ecosect), name, presence[mpa][ecosect])
                ELSE cp[mpa][ecosect]]
        ELSE cp[mpa]]

merge_overlap(overlap, sliver, type, name) ==
    [mpa \in DOMAIN overlap \cup DOMAIN sliver |->
        IF mpa \in DOMAIN sliver
        THEN Put(Get(overlap, mpa), type,
                 Put(Get(Get(overlap, mpa), type), name, sliver[mpa]))
        ELSE overlap[mpa]]

----------------------------------------------------------------------------
(* The injection of the HUs the inclusion matrix marks as present *)

placeholder ==
    [ecosect_placeholder |->
        [clip_area |-> 1, orig_area |-> 1, mpa_area |-> 1, region_area |-> 1,
         pct_in_mpa |-> 1, pct_of_region |-> 1, pct_of_total |-> 1]]

injected(im, mpa) ==
    {hu \in DOMAIN im[mpa] :
        im[mpa][hu] = "Y" \/ (im[mpa][hu] = "U" /\ override_u = "True")}

\* the injection writing the placeholder over a record that already exists
inject_hu_overwriting(hu_map, im) ==
    LET touched == {mpa \in DOMAIN im : injected(im, mpa) # {}}
    IN  [mpa \in DOMAIN hu_map \cup touched |->
            IF mpa \in touched
            THEN [hu \in DOMAIN Get(hu_map, mpa) \cup injected(im, mpa) |->
                    IF hu \in injected(im, mpa) THEN placeholder
                    ELSE hu_map[mpa][hu]]
            ELSE hu_map[mpa]]

inject_hu(hu_map, im) ==
    LET touched == {mpa \in DOMAIN im : injected(im, mpa) # {}}
    IN  [mpa \in DOMAIN hu_map \cup touched |->
            IF mpa \in touched
            THEN [hu \in DOMAIN Get(hu_map, mpa) \cup injected(im, mpa) |->
                    IF hu \in DOMAIN Get(hu_map, mpa) THEN hu_map[mpa][hu]
                    ELSE placeholder]
            ELSE hu_map[mpa]]

----------------------------------------------------------------------------
(* loadInteractionsMatrix.  A label of the CSV file is the sequence of its *)
(* characters; a key of imatrix is a string, named by its spelling.  The    *)
(* file is the sequence of its rows, the header first; a data row is the   *)
(* sequence of its cells, a blank line the empty row.                      *)

Upper == <<"A", "B", "C", "D", "E", "F", "G", "H", "I", "J", "K", "L", "M",
           "N", "O", "P", "Q", "R", "S", "T", "U", "V", "W", "X", "Y", "Z">>

Lower == <<"a", "b", "c", "d", "e", "f", "g", "h", "i", "j", "k", "l", "m",
           "n", "o", "p", "q", "r", "s", "t", "u", "v", "w", "x", "y", "z">>

\* the characters the regex [^a-zA-Z] does not match
IsAlpha(c) == \E k \in 1..26 : Upper[k] = c \/ Lower[k] = c

\* str.lower() on one character
lower(c) == IF \E k \in 1..26 : Upper[k] = c
            THEN Lower[CHOOSE k \in 1..26 : Upper[k] = c] ELSE c

\* regex.sub('', label).lower()
normalize(label) ==
    LET kept == SelectSeq(label, IsAlpha)
    IN  [k \in 1..Len(kept) |-> lower(kept[k])]

\* the strings the labels of the model normalize to, with their spelling
Spelling ==
    [reef |-> <<"r", "e", "e", "f">>,
     reefs |-> <<"r", "e", "e", "f", "s">>,
     trawl |-> <<"t", "r", "a", "w", "l">>,
     anchor |-> <<"a", "n", "c", "h", "o", "r">>]

\* the string with the given characters
Str(chars) == CHOOSE w \in DOMAIN Spelling : Spelling[w] = chars

\* lines 897-901: the two severities the file spells differently
stored_interaction(interaction) ==
    IF interaction = "VERY HIGH" THEN "HIGH"
    ELSE IF interaction = "MEDIUM" THEN "MODERATE"
    ELSE interaction

RECURSIVE load_rows(_, _, _)
load_rows(rows, k, im) ==
    IF k > Len(rows) THEN im
    ELSE LET hu == Str(normalize(rows[k][1]))
             cp == Str(normalize(rows[k][3]))
         IN  load_rows(rows, k + 1,
                       Put(im, cp, Put(Get(im, cp), hu, stored_interaction(rows[k][4]))))

\* reader.next() on an empty file raises StopIteration; row[0], row[2] or
\* row[3] on a row with fewer cells raises IndexError
loadInteractionsMatrix_error(file) ==
    IF file = <<>> THEN "StopIteration"
    ELSE IF \E k \in 2..Len(file) : Len(file[k]) < 4 THEN "IndexError"
    ELSE "none"

loadInteractionsMatrix(file) == load_rows(Tail(file), 1, <<>>)

\* the header row of the file, which the code reads and drops
matrix_header == <<"Human use", "Pathway", "Conservation priority", "Severity">>

\* labels as the file writes them
Label_Trawl == <<"T", "r", "a", "w", "l">>

Label_TRAWL2 == <<"T", "R", "A", "W", "L", " ", "2">>

Label_Reef == <<"R", "e", "e", "f">>

Label_re_efs == <<"r", "e", "-", "e", "f", "s">>

----------------------------------------------------------------------------
(* determineInteraction and identifyInteractions *)

\* the lookup raising on a CP key or an HU key the matrix does not hold
determineInteraction_strict(im, cp, hu) ==
    IF Len(cp) < 4 \/ Len(hu) < 3 THEN "IndexError"
    ELSE IF cp[4] \in DOMAIN im /\ hu[3] \in DOMAIN im[cp[4]]
         THEN im[cp[4]][hu[3]] ELSE "IndexError"

\* split('_')[3] and split('_')[2] raise IndexError on a name with fewer
\* segments; the result is then the string "IndexError"
determineInteraction(im, cp, hu) ==
    IF Len(cp) < 4 \/ Len(hu) < 3 THEN "IndexError"
    ELSE LET cp_key == cp[4]
             hu_key == hu[3]
         IN  IF cp_key \in DOMAIN im /\ hu_key \in DOMAIN im[cp_key]
             THEN im[cp_key][hu_key] ELSE "None"

identifyInteractions_everyMPA(hu_map, cp_map, im) ==
    [mpa \in DOMAIN cp_map |->
        [cp \in UNION {DOMAIN cp_map[mpa][ecosection] : ecosection \in DOMAIN cp_map[mpa]} |->
            [interactions |->
                SelectSeq([k \in 1..Len(SeqOfSet(DOMAIN Get(hu_map, mpa))) |->
                              determineInteraction(im, cp, SeqOfSet(DOMAIN Get(hu_map, mpa))[k])],
                          LAMBDA interaction : interaction # "None"),
             eff_score |-> <<>>]]]

\* the interactions of a CP collected once for every ecosection it is in
identifyInteractions_perEcosection(hu_map, cp_map, im) ==
    [mpa \in DOMAIN hu_map \cap DOMAIN cp_map |->
        [cp \in UNION {DOMAIN cp_map[mpa][ecosection] : ecosection \in DOMAIN cp_map[mpa]} |->
            LET once == SelectSeq([k \in 1..Len(SeqOfSet(DOMAIN hu_map[mpa])) |->
                                     determineInteraction(im, cp, SeqOfSet(DOMAIN hu_map[mpa])[k])],
                                  LAMBDA interaction : interaction # "None")
            IN  [interactions |->
                    IF Cardinality({ecosection \in DOMAIN cp_map[mpa] :
                                       cp \in DOMAIN cp_map[mpa][ecosection]}) > 1
                    THEN once \o once ELSE once,
                 eff_score |-> <<>>]]]

identifyInteractions(hu_map, cp_map, im) ==
    [mpa \in DOMAIN hu_map \cap DOMAIN cp_map |->
        [cp \in UNION {DOMAIN cp_map[mpa][ecosection] : ecosection \in DOMAIN cp_map[mpa]} |->
            [interactions |->
                SelectSeq([k \in 1..Len(SeqOfSet(DOMAIN hu_map[mpa])) |->
                              determineInteraction(im, cp, SeqOfSet(DOMAIN hu_map[mpa])[k])],
                          LAMBDA interaction : interaction # "None"),
             eff_score |-> <<>>]]]

\* the exception the first call of determineInteraction to raise one raises
identifyInteractions_error(hu_map, cp_map, im) ==
    IF \E mpa \in DOMAIN hu_map \cap DOMAIN cp_map :
          \E ecosection \in DOMAIN cp_map[mpa] :
              \E cp \in DOMAIN cp_map[mpa][ecosection] :
                  \E hu \in DOMAIN hu_map[mpa] :
                      determineInteraction(im, cp, hu) = "IndexError"
    THEN "IndexError" ELSE "none"

----------------------------------------------------------------------------
(* prepareOutputTable1 *)

\* the (ecosection, CP) pairs of an MPA the triple loop reaches
table1_pairs(cp_i, cp_map, mpa) ==
    {<<ecosections[k], cp>> : <<k, cp>> \in
        {q \in (1..Len(ecosections)) \X (DOMAIN cp_i[mpa]) :
            /\ ecosections[q[1]] \in DOMAIN cp_map[mpa]
            /\ q[2] \in DOMAIN cp_map[mpa][ecosections[q[1]]]}}

score_of(cp_i, mpa, cp) ==
    LET n == countInteractions(cp_i[mpa][cp].interactions)
    IN  calcEffectivenessScore(n[1], n[2], n[3])

\* the entry with the unscaled area in place of the scaled one
table1_entry_unscored(presence, score) ==
    LET scaled_area == Rat(presence.clip_area)
    IN  [mpa_area |-> presence.mpa_area,
         og_area |-> presence.orig_area,
         uscaled_area |-> presence.clip_area,
         scaled_area |-> scaled_area,
         pct_of_mpa |-> RatDiv(scaled_area, Rat(presence.mpa_area)),
         pct_of_og |-> RatDiv(scaled_area, Rat(presence.orig_area)),
         subregion |-> presence.subregion]

table1_entry(presence, score) ==
    LET scaled_area == RatMul(score, Rat(presence.clip_area))
    IN  [mpa_area |-> presence.mpa_area,
         og_area |-> presence.orig_area,
         uscaled_area |-> presence.clip_area,
         scaled_area |-> scaled_area,
         pct_of_mpa |-> RatDiv(scaled_area, Rat(presence.mpa_area)),
         pct_of_og |-> RatDiv(scaled_area, Rat(presence.orig_area)),
         subregion |-> presence.subregion]

\* the result: the table, cp_in_mpa_i with the scores filled in, and the
\* exception a zero mpa_area or og_area raises in the divisions
prepareOutputTable1(cp_i, cp_map) ==
    [o_table_1 |->
        [mpa \in DOMAIN cp_i |->
            [ecosection \in {q[1] : q \in table1_pairs(cp_i, cp_map, mpa)} |->
                [cp \in {q[2] : q \in {r \in table1_pairs(cp_i, cp_map, mpa) :
                                          r[1] = ecosection}} |->
                    table1_entry(cp_map[mpa][ecosection][cp], score_of(cp_i, mpa, cp))]]],
     cp_in_mpa_i |->
        [mpa \in DOMAIN cp_i |->
            [cp \in DOMAIN cp_i[mpa] |->
                IF cp \in {q[2] : q \in table1_pairs(cp_i, cp_map, mpa)}
                THEN [cp_i[mpa][cp] EXCEPT !.eff_score = score_of(cp_i, mpa, cp)]
                ELSE cp_i[mpa][cp]]],
     error |->
        IF \E mpa \in DOMAIN cp_i : \E q \in table1_pairs(cp_i, cp_map, mpa) :
              \/ cp_map[mpa][q[1]][q[2]].mpa_area = 0
              \/ cp_map[mpa][q[1]][q[2]].orig_area = 0
        THEN "ZeroDivisionError" ELSE "none"]

----------------------------------------------------------------------------
(* createOutputTable2 and writeOutputTable2 *)

\* the second-level keys of Table 1
AllRegions(table1) == UNION {DOMAIN table1[mpa] : mpa \in DOMAIN table1}

createOutputTable2(table1) ==
    LET cps == UNION {DOMAIN table1[mpa][region] :
                        <<mpa, region>> \in {q \in (DOMAIN table1) \X AllRegions(table1) :
                                                q[2] \in DOMAIN table1[q[1]]}}
        regions_of(cp) == {region \in AllRegions(table1) :
                             \E mpa \in DOMAIN table1 :
                                 /\ region \in DOMAIN table1[mpa]
                                 /\ cp \in DOMAIN table1[mpa][region]}
        mpas_of(cp, region) == {mpa \in DOMAIN table1 :
                                  /\ region \in DOMAIN table1[mpa]
                                  /\ cp \in DOMAIN table1[mpa][region]}
        cell(cp, region) ==
            LET original == table1[CHOOSE mpa \in mpas_of(cp, region) : TRUE][region][cp].og_area
                protected == RatSumSet([mpa \in mpas_of(cp, region) |->
                                           table1[mpa][region][cp].scaled_area],
                                       mpas_of(cp, region))
            IN  [original |-> original,
                 protected |-> protected,
                 pct |-> IF original # 0 THEN RatDiv(protected, Rat(original))
                         ELSE <<0, 1>>]
    IN  [cp \in cps |-> [region \in regions_of(cp) |-> cell(cp, region)]]

cols == <<"region", "CC", "NC", "NCVI", "HG">>

\* the exception cols.index(sr) raises for a key that is no column
writeOutputTable2_error(table2) ==
    IF \E cp \in DOMAIN table2 : \E sr \in DOMAIN table2[cp] :
          sr \notin {cols[k] : k \in 1..Len(cols)}
    THEN "ValueError" ELSE "none"

----------------------------------------------------------------------------
(* Spec: one run of the script, from its first statement to its last *)

\* the script with the sliver table written before the interactions are found
Script_sliversFirst ==
    <<"prepareMPAs", "readInputs", "layers", "inject", "writeOutputTable3",
      "loadInteractionsMatrix", "identifyInteractions", "prepareOutputTable1",
      "writeOutputTable1", "createOutputTable2", "writeOutputTable2", "done">>

\* the script with the interaction matrix read along with the other
\* tabular inputs, before the layer loop
Script_matrixWithInputs ==
    <<"prepareMPAs", "readInputs", "loadInteractionsMatrix", "layers", "inject",
      "identifyInteractions", "prepareOutputTable1", "writeOutputTable1",
      "createOutputTable2", "writeOutputTable2", "writeOutputTable3", "done">>

\* the statements of the script in the order they are written
Script ==
    <<"prepareMPAs", "readInputs", "layers", "inject", "loadInteractionsMatrix",
      "identifyInteractions", "prepareOutputTable1", "writeOutputTable1",
      "createOutputTable2", "writeOutputTable2", "writeOutputTable3", "done">>

After(stage) == Script[(CHOOSE k \in 1..Len(Script) : Script[k] = stage) + 1]

\* the statement returns: the script goes on to the next one
Returns(stage) ==
    /\ pc' = After(stage)
    /\ completed' = Append(completed, stage)
    /\ error' = "none"

\* the statement raises: nothing catches it and the run ends
Raises(exception) ==
    /\ pc' = "aborted"
    /\ completed' = completed
    /\ error' = exception

\* the inclusion matrices the run may read: no row, or a row for Alpha with
\* the column of the HU layer
PipelineMatrices == PresenceMatrices

\* the exception readMPAInclusionMatrix raises on a file given as its rows
\* of cells: reader.next() on a file with no line, row[0] of a blank line,
\* header[i] for a row longer than the header
readMPAInclusionMatrix_error(file) ==
    IF Len(file) = 0 THEN "StopIteration"
    ELSE IF \E k \in 2..Len(file) : Len(file[k]) = 0 \/ Len(file[k]) > Len(file[1])
         THEN "IndexError"
         ELSE "none"

\* inclusion matrix files that cannot be parsed: no line at all, a blank
\* line after the header, a row with more cells than the header
MalformedInclusionFiles ==
    {<<>>,
     <<<<"", HU_trawl>>, <<>>>>,
     <<<<"">>, <<"Alpha", "Y">>>>}

\* the interaction matrix files the run may read: the header alone, the
\* header and one row for reef and trawl, or the header and a blank line
InteractionMatrixFiles ==
    {<<matrix_header>>, <<matrix_header, <<>>>>}
    \cup {<<matrix_header, <<Label_Trawl, "", Label_Reef, v>>>> :
            v \in {"LOW", "MEDIUM", "VERY HIGH"}}

\* the pieces Intersect_analysis may return for a layer, each with the
\* scaling value 1 the default configuration gives every feature
LayerPieces(working_layer) ==
    IF layer_type(working_layer) = "hu"
    THEN {[NAME_E |-> "Alpha", ecosection |-> "Hecate Strait", shape_area |-> 3, etp_scaling |-> 1],
          [NAME_E |-> "Beta", ecosection |-> "Hecate Strait", shape_area |-> 3, etp_scaling |-> 1]}
    ELSE {[NAME_E |-> "Alpha", ecosection |-> "Hecate Strait", shape_area |-> 6, etp_scaling |-> 1],
          [NAME_E |-> "Alpha", ecosection |-> "Dixon Entrance", shape_area |-> 6, etp_scaling |-> 1],
          [NAME_E |-> "Beta", ecosection |-> "Hecate Strait", shape_area |-> 6, etp_scaling |-> 1]}

\* what Intersect_analysis may return for the layer the loop over list is at
LayerIntersectsIn(list) ==
    IF layer_i \in 1..Len(list)
    THEN IntersectOutputs(LayerPieces(list[layer_i]), MaxPieces)
    ELSE {}

LayerIntersects == LayerIntersectsIn(layer_list)

\* the field names of the MPA layers of the map document: both layers
\* with a name field, or one of the two without
MPALayerSets ==
    {<<{"OBJECTID", "NAME_E"}, {"OBJECTID", "Name_E"}>>,
     <<{"OBJECTID", "NAME_E"}, {"OBJECTID", "name_e"}>>,
     <<{"OBJECTID", "MPA_NAME"}, {"OBJECTID", "NAME_E"}>>}

Init ==
    /\ override_y \in Booleans
    /\ override_n \in Booleans
    /\ override_u \in OverrideUValues
    /\ inclusion_matrix = <<>>
    /\ ProbeIdle
    /\ ScoreIdle
    /\ mpa_fc = <<>>
    /\ layer_i = 0
    /\ GeometryIdle
    /\ PipelineIdle
    /\ mpa_layers \in MPALayerSets
    /\ scaling_attribute = "None"
    /\ scaling_attribute_file = None
    /\ scaling_dict = None
    /\ loaded = <<>>
    /\ ThresholdIdle
    /\ RerunIdle
    /\ pc = "prepareMPAs"

PrepareMPAs ==
    /\ pc = "prepareMPAs"
    /\ IF prepareMPAs_error(mpa_layers) = "none"
       THEN /\ mpa_fc' = prepareMPAs(mpas_merged, mpa_sub_intersect, mpa_ecosect_intersect)
            /\ Returns("prepareMPAs")
       ELSE /\ mpa_fc' = mpa_fc
            /\ Raises(prepareMPAs_error(mpa_layers))
    /\ UNCHANGED <<loadVars, configVars, probeVars, scoreVars, layer_i, geometryVars,
                   hu_in_mpas, cp_in_mpas, percent_overlap, imatrix,
                   cp_in_mpa_i, o_table_1, o_table_2, written>>

ReadInputs(matrix) ==
    /\ pc = "readInputs"
    /\ inclusion_matrix' = matrix
    /\ layer_i' = 1
    /\ Returns("readInputs")
    /\ UNCHANGED <<loadVars, override_y, override_n, override_u, probeVars, scoreVars, mpa_fc,
                   geometryVars, hu_in_mpas, cp_in_mpas, percent_overlap, imatrix,
                   cp_in_mpa_i, o_table_1, o_table_2, written>>

\* the inclusion matrix file cannot be parsed: the exception is not caught
ReadInputsFails(file) ==
    /\ pc = "readInputs"
    /\ readMPAInclusionMatrix_error(file) # "none"
    /\ Raises(readMPAInclusionMatrix_error(file))
    /\ UNCHANGED <<loadVars, configVars, probeVars, scoreVars, mpa_fc, layer_i, geometryVars,
                   hu_in_mpas, cp_in_mpas, percent_overlap, imatrix,
                   cp_in_mpa_i, o_table_1, o_table_2, written>>

\* one iteration of the loop over the layers of list
ProcessLayerIn(list, intersect) ==
    /\ pc = "layers"
    /\ layer_i <= Len(list)
    /\ LET working_layer == list[layer_i]
           type == layer_type(working_layer)
           r == calculate_presence(working_layer, FeatureAreas(working_layer), intersect,
                                   layer_threshold(working_layer),
                                   layer_subregion(working_layer),
                                   inclusion_matrix, mpa_fc)
           name == stripped_name(working_layer)
       IN  /\ intersected' = intersect
           /\ processed_layer' = r.processed_layer
           /\ mpa_presence' = r.mpas
           /\ sliver_freq' = r.sliver_freq
           /\ hu_in_mpas' = IF type = "hu" THEN merge_hu(hu_in_mpas, r.mpas, name)
                            ELSE hu_in_mpas
           /\ cp_in_mpas' = IF type = "hu" THEN cp_in_mpas
                            ELSE merge_cp(cp_in_mpas, r.mpas, name)
           /\ percent_overlap' = merge_overlap(percent_overlap, r.sliver_freq, type, name)
    /\ layer_i' = layer_i + 1
    /\ IF layer_i = Len(list) THEN Returns("layers")
       ELSE UNCHANGED <<pc, completed, error>>
    /\ UNCHANGED <<loadVars, configVars, probeVars, scoreVars, mpa_fc, imatrix,
                   cp_in_mpa_i, o_table_1, o_table_2, written>>

\* one iteration of the loop over layer_list
ProcessLayer(intersect) == ProcessLayerIn(layer_list, intersect)

\* a geometry tool fails on the layer: arcpy raises and the run ends
GeometryFails ==
    /\ pc = "layers"
    /\ layer_i <= Len(layer_list)
    /\ Raises("ExecuteError")
    /\ UNCHANGED <<loadVars, configVars, probeVars, scoreVars, mpa_fc, layer_i, geometryVars,
                   hu_in_mpas, cp_in_mpas, percent_overlap, imatrix,
                   cp_in_mpa_i, o_table_1, o_table_2, written>>

InjectHU ==
    /\ pc = "inject"
    /\ hu_in_mpas' = inject_hu(hu_in_mpas, inclusion_matrix)
    /\ Returns("inject")
    /\ UNCHANGED <<loadVars, configVars, probeVars, scoreVars, mpa_fc, layer_i, geometryVars,
                   cp_in_mpas, percent_overlap, imatrix,
                   cp_in_mpa_i, o_table_1, o_table_2, written>>

LoadInteractionsMatrix(file) ==
    /\ pc = "loadInteractionsMatrix"
    /\ IF loadInteractionsMatrix_error(file) = "none"
       THEN /\ imatrix' = loadInteractionsMatrix(file)
            /\ Returns("loadInteractionsMatrix")
       ELSE /\ imatrix' = imatrix
            /\ Raises(loadInteractionsMatrix_error(file))
    /\ UNCHANGED <<loadVars, configVars, probeVars, scoreVars, mpa_fc, layer_i, geometryVars,
                   hu_in_mpas, cp_in_mpas, percent_overlap,
                   cp_in_mpa_i, o_table_1, o_table_2, written>>

IdentifyInteractions ==
    /\ pc = "identifyInteractions"
    /\ IF identifyInteractions_error(hu_in_mpas, cp_in_mpas, imatrix) = "none"
       THEN /\ cp_in_mpa_i' = identifyInteractions(hu_in_mpas, cp_in_mpas, imatrix)
            /\ Returns("identifyInteractions")
       ELSE /\ Raises(identifyInteractions_error(hu_in_mpas, cp_in_mpas, imatrix))
            /\ UNCHANGED cp_in_mpa_i
    /\ UNCHANGED <<loadVars, configVars, probeVars, scoreVars, mpa_fc, layer_i, geometryVars,
                   hu_in_mpas, cp_in_mpas, percent_overlap, imatrix,
                   o_table_1, o_table_2, written>>

PrepareOutputTable1 ==
    /\ pc = "prepareOutputTable1"
    /\ LET r == prepareOutputTable1(cp_in_mpa_i, cp_in_mpas)
       IN  IF r.error = "none"
           THEN /\ o_table_1' = r.o_table_1
                /\ cp_in_mpa_i' = r.cp_in_mpa_i
                /\ Returns("prepareOutputTable1")
           ELSE /\ Raises(r.error)
                /\ UNCHANGED <<o_table_1, cp_in_mpa_i>>
    /\ UNCHANGED <<loadVars, configVars, probeVars, scoreVars, mpa_fc, layer_i, geometryVars,
                   hu_in_mpas, cp_in_mpas, percent_overlap, imatrix,
                   o_table_2, written>>

WriteOutputTable1 ==
    /\ pc = "writeOutputTable1"
    /\ written' = [written EXCEPT !["table1"] = "complete"]
    /\ Returns("writeOutputTable1")
    /\ UNCHANGED <<loadVars, configVars, probeVars, scoreVars, mpa_fc, layer_i, geometryVars,
                   hu_in_mpas, cp_in_mpas, percent_overlap, imatrix,
                   cp_in_mpa_i, o_table_1, o_table_2>>

CreateOutputTable2 ==
    /\ pc = "createOutputTable2"
    /\ o_table_2' = createOutputTable2(o_table_1)
    /\ Returns("createOutputTable2")
    /\ UNCHANGED <<loadVars, configVars, probeVars, scoreVars, mpa_fc, layer_i, geometryVars,
                   hu_in_mpas, cp_in_mpas, percent_overlap, imatrix,
                   cp_in_mpa_i, o_table_1, written>>

\* the file is opened and its header written before the first row is built
WriteOutputTable2 ==
    /\ pc = "writeOutputTable2"
    /\ IF writeOutputTable2_error(o_table_2) = "none"
       THEN /\ written' = [written EXCEPT !["table2"] = "complete"]
            /\ Returns("writeOutputTable2")
       ELSE /\ written' = [written EXCEPT !["table2"] = "partial"]
            /\ Raises(writeOutputTable2_error(o_table_2))
    /\ UNCHANGED <<loadVars, configVars, probeVars, scoreVars, mpa_fc, layer_i, geometryVars,
                   hu_in_mpas, cp_in_mpas, percent_overlap, imatrix,
                   cp_in_mpa_i, o_table_1, o_table_2>>

WriteOutputTable3 ==
    /\ pc = "writeOutputTable3"
    /\ written' = [written EXCEPT !["table3"] = "complete"]
    /\ Returns("writeOutputTable3")
    /\ UNCHANGED <<loadVars, configVars, probeVars, scoreVars, mpa_fc, layer_i, geometryVars,
                   hu_in_mpas, cp_in_mpas, percent_overlap, imatrix,
                   cp_in_mpa_i, o_table_1, o_table_2>>

Next ==
    \/ PrepareMPAs
    \/ \E matrix \in PipelineMatrices : ReadInputs(matrix)
    \/ \E file \in MalformedInclusionFiles : ReadInputsFails(file)
    \/ \E intersect \in LayerIntersects : ProcessLayer(intersect)
    \/ GeometryFails
    \/ InjectHU
    \/ \E file \in InteractionMatrixFiles : LoadInteractionsMatrix(file)
    \/ IdentifyInteractions
    \/ PrepareOutputTable1
    \/ WriteOutputTable1
    \/ CreateOutputTable2
    \/ WriteOutputTable2
    \/ WriteOutputTable3

Spec == Init /\ [][Next]_vars

----------------------------------------------------------------------------
(* SpecTagged: the script from the layer loop to identifyInteractions for  *)
(* a map document whose HU layer is clipped to a subregion, so that its    *)
(* dataset name ends in the subregion's tag, with an inclusion matrix      *)
(* whose column is headed by that dataset name or by the name without tag  *)

HU_trawl_CC == <<"mpatt", "hu", "trawl", "data", "CC">>

tagged_layer_list == <<HU_trawl_CC, CP_reef>>

\* no row, or a row for Alpha with a Y under the layer's dataset name, or
\* under the name without the tag
TaggedMatrices ==
    {<<>>} \cup {[mpa \in {"Alpha"} |-> [fc \in {header} |-> "Y"]] :
                    header \in {HU_trawl_CC, SubSeq(HU_trawl_CC, 1, 4)}}

InitTagged ==
    /\ override_y \in Booleans
    /\ override_n = TRUE
    /\ override_u = "None"
    /\ inclusion_matrix \in TaggedMatrices
    /\ ProbeIdle
    /\ ScoreIdle
    /\ mpa_fc = prepareMPAs(mpas_merged, mpa_sub_intersect, mpa_ecosect_intersect)
    /\ layer_i = 1
    /\ GeometryIdle
    /\ hu_in_mpas = <<>>
    /\ cp_in_mpas = <<>>
    /\ percent_overlap = <<>>
    /\ imatrix = <<>>
    /\ cp_in_mpa_i = <<>>
    /\ o_table_1 = <<>>
    /\ o_table_2 = <<>>
    /\ written = [f \in OutputFiles |-> "absent"]
    /\ completed = <<"prepareMPAs", "readInputs">>
    /\ error = "none"
    /\ LoadIdle
    /\ pc = "layers"

\* one iteration of the loop over the layers of this map document
ProcessTaggedLayer(intersect) == ProcessLayerIn(tagged_layer_list, intersect)

NextTagged ==
    \/ \E intersect \in LayerIntersectsIn(tagged_layer_list) : ProcessTaggedLayer(intersect)
    \/ InjectHU
    \/ \E file \in InteractionMatrixFiles : LoadInteractionsMatrix(file)
    \/ IdentifyInteractions

SpecTagged == InitTagged /\ [][NextTagged]_vars

----------------------------------------------------------------------------
(* SpecTables: the scoring half of the script, from identifyInteractions  *)
(* on, applied to presence maps drawn from a bounded set: an MPA with up  *)
(* to three HU layers, one of them injected under a column header with no *)
(* underscore, and a CP in one or two ecosections whose MPA area or       *)
(* original area may be zero                                              *)

HU_anchor == <<"mpatt", "hu", "anchor", "data">>

HU_short == <<"anchoring">>

TableHUMaps ==
    {<<>>} \cup {[mpa \in {"Alpha"} |-> [hu \in H |-> placeholder]] :
                    H \in (SUBSET {HU_trawl, HU_anchor, HU_short}) \ {{}}}

TableCPMaps ==
    {[mpa \in {"Alpha"} |->
        [ecosection \in E |->
            [cp \in {CP_reef} |->
                [subregion |-> "CC", clip_area |-> 6, orig_area |-> og,
                 mpa_area |-> area]]]] :
        <<E, og, area>> \in ((SUBSET {"Hecate Strait", "Dixon Entrance",
                                       "Offshore Pacific"}) \ {{}})
                               \X {0, 50} \X {0, 100}}

\* the interaction matrices: no row, or a row for reef with a value for
\* trawl, for anchor or for both
TableMatrices ==
    {<<>>} \cup UNION {{[cp \in {"reef"} |-> m] : m \in [H -> MatrixValues]} :
                        H \in (SUBSET {"trawl", "anchor"}) \ {{}}}

InitTables ==
    /\ ConfigDefault
    /\ inclusion_matrix = <<>>
    /\ ProbeIdle
    /\ ScoreIdle
    /\ mpa_fc = <<>>
    /\ layer_i = 0
    /\ GeometryIdle
    /\ LoadIdle
    /\ hu_in_mpas \in TableHUMaps
    /\ cp_in_mpas \in TableCPMaps
    /\ imatrix \in TableMatrices
    /\ percent_overlap = <<>>
    /\ cp_in_mpa_i = <<>>
    /\ o_table_1 = <<>>
    /\ o_table_2 = <<>>
    /\ written = [f \in OutputFiles |-> "absent"]
    /\ completed = <<>>
    /\ error = "none"
    /\ pc = "identifyInteractions"

NextTables ==
    \/ IdentifyInteractions
    \/ PrepareOutputTable1
    \/ WriteOutputTable1
    \/ CreateOutputTable2
    \/ WriteOutputTable2
    \/ WriteOutputTable3

SpecTables == InitTables /\ [][NextTables]_vars

----------------------------------------------------------------------------
(* SpecLoad: the scaling configuration, buildScalingDict and one call of   *)
(* loadLayer.  probe holds the layer: its dataset name, whether it is in   *)
(* complexFeatureClasses, and the names of its fields                      *)

CP_patches == <<"mpatt", "eco", "coarse", "bottompatches", "data">>

RECURSIVE scaling_rows(_, _, _)
scaling_rows(rows, k, scaling_fields) ==
    IF k > Len(rows) THEN scaling_fields
    ELSE scaling_rows(rows, k + 1, Put(scaling_fields, rows[k][1], rows[k][2]))

buildScalingDict(rows) == scaling_rows(rows, 1, <<>>)

\* what loadLayer does to the layer: the name it returns and the field, or
\* the constant '1', it copies into etp_scaling
loadLayer(layer_name, dict, attribute, is_complex, fields) ==
    LET working_layer == IF is_complex THEN Append(layer_name, "c") ELSE layer_name
        named == IF dict # None /\ working_layer \in DOMAIN dict[1]
                 THEN dict[1][working_layer] ELSE attribute
    IN  [name |-> layer_name,
         etp_scaling |-> IF named # "None" /\ named \in fields THEN named ELSE "1"]

\* the scaling files: no row, or one row naming a field for a layer
ScalingFiles ==
    {<<>>} \cup {<<<<layer, field>>>> :
                    <<layer, field>> \in {CP_patches, HU_trawl} \X {"WEIGHT", "RI"}}

InitLoad ==
    /\ ConfigDefault
    /\ inclusion_matrix = <<>>
    /\ probe \in [layer : {CP_patches}, is_complex : BOOLEAN,
                  fields : SUBSET {"WEIGHT", "RI"}]
    /\ included = FALSE
    /\ ScoreIdle
    /\ mpa_fc = <<>>
    /\ layer_i = 0
    /\ GeometryIdle
    /\ PipelineIdle
    /\ mpa_layers = <<{"OBJECTID", "NAME_E"}, {"OBJECTID", "Name_E"}>>
    /\ scaling_attribute \in {"None", "RI"}
    /\ scaling_attribute_file \in {None} \cup {Some(file) : file \in ScalingFiles}
    /\ scaling_dict = None
    /\ loaded = <<>>
    /\ ThresholdIdle
    /\ RerunIdle
    /\ pc = "buildScalingDict"

\* lines 1214-1216
BuildScalingDict ==
    /\ pc = "buildScalingDict"
    /\ scaling_dict' = IF scaling_attribute_file # None
                       THEN Some(buildScalingDict(scaling_attribute_file[1]))
                       ELSE None
    /\ pc' = "loadLayer"
    /\ UNCHANGED <<mpa_layers, scaling_attribute, scaling_attribute_file, loaded,
                   thresholdVars, rerunVars, configVars, probeVars, scoreVars, mpa_fc, layer_i, geometryVars,
                   pipelineVars>>

CallLoadLayer ==
    /\ pc = "loadLayer"
    /\ loaded' = loadLayer(probe.layer, scaling_dict, scaling_attribute,
                           probe.is_complex, probe.fields)
    /\ pc' = "layer_loaded"
    /\ UNCHANGED <<mpa_layers, scaling_attribute, scaling_attribute_file, scaling_dict,
                   thresholdVars, rerunVars, configVars, probeVars, scoreVars, mpa_fc, layer_i, geometryVars,
                   pipelineVars>>

NextLoad == BuildScalingDict \/ CallLoadLayer

SpecLoad == InitLoad /\ [][NextLoad]_vars

----------------------------------------------------------------------------
(* SpecThreshold: the threshold configuration of the script, lines         *)
(* 1218-1220, and the threshold the layer loop sets for one layer, lines   *)
(* 1258-1260, under every threshold file of up to MaxThresholdRows rows    *)

MaxThresholdRows == 2

\* lines 557-561: the exception the loop over the rows raises. A row with
\* fewer than two cells fails at row[0] or row[1]; a row with two cells is
\* read into fc_name and layer_threshold, and line 561 then reads the name
\* layer_treshold, which is bound nowhere
buildThresholdDict_error(rows) ==
    IF Len(rows) = 0 THEN "none"
    ELSE IF Len(rows[1]) < 2 THEN "IndexError"
    ELSE "NameError"

\* lines 553, 563: the dictionary returned when no row raised, which is
\* when the file has no row
buildThresholdDict(rows) == <<>>

\* lines 1258-1260: the default of the layer's type, replaced by the
\* dictionary's value for the layer if it has one
loop_threshold(working_layer, dict) ==
    IF dict # None /\ working_layer \in DOMAIN dict[1]
    THEN dict[1][working_layer]
    ELSE layer_threshold(working_layer)

\* the rows of a well-formed threshold file: a layer name and a fraction,
\* as the strings csv.reader returns
ThresholdRows == {<<layer, fraction>> : <<layer, fraction>> \in {CP_patches, HU_trawl} \X {"0.1", "0.5"}}

ThresholdFiles == UNION {[1..n -> ThresholdRows] : n \in 0..MaxThresholdRows}

InitThreshold ==
    /\ ConfigDefault
    /\ inclusion_matrix = <<>>
    /\ probe \in [layer : {CP_patches, HU_trawl, HU_anchor}]
    /\ included = FALSE
    /\ ScoreIdle
    /\ mpa_fc = <<>>
    /\ layer_i = 0
    /\ GeometryIdle
    /\ PipelineIdle
    /\ mpa_layers = <<{"OBJECTID", "NAME_E"}, {"OBJECTID", "Name_E"}>>
    /\ scaling_attribute = "None"
    /\ scaling_attribute_file = None
    /\ scaling_dict = None
    /\ loaded = <<>>
    /\ layer_presence_threshold_file \in {None} \cup {Some(file) : file \in ThresholdFiles}
    /\ threshold_dict = None
    /\ lyr_threshold = None
    /\ RerunIdle
    /\ pc = "buildThresholdDict"

\* lines 1218-1220
BuildThresholdDict ==
    /\ pc = "buildThresholdDict"
    /\ IF layer_presence_threshold_file = None
       THEN /\ threshold_dict' = None
            /\ pc' = "layer_loop"
            /\ error' = error
       ELSE IF buildThresholdDict_error(layer_presence_threshold_file[1]) = "none"
       THEN /\ threshold_dict' = Some(buildThresholdDict(layer_presence_threshold_file[1]))
            /\ pc' = "layer_loop"
            /\ error' = error
       ELSE /\ threshold_dict' = threshold_dict
            /\ pc' = "aborted"
            /\ error' = buildThresholdDict_error(layer_presence_threshold_file[1])
    /\ UNCHANGED <<scalingVars, rerunVars, layer_presence_threshold_file, lyr_threshold,
                   configVars, probeVars, scoreVars, mpa_fc, layer_i, geometryVars,
                   hu_in_mpas, cp_in_mpas, percent_overlap, imatrix,
                   cp_in_mpa_i, o_table_1, o_table_2, written, completed>>

\* lines 1254-1260 for the layer of the probe
SetThreshold ==
    /\ pc = "layer_loop"
    /\ lyr_threshold' = Some(loop_threshold(probe.layer, threshold_dict))
    /\ pc' = "threshold_set"
    /\ UNCHANGED <<scalingVars, rerunVars, layer_presence_threshold_file, threshold_dict,
                   configVars, probeVars, scoreVars, mpa_fc, layer_i, geometryVars,
                   pipelineVars>>

NextThreshold == BuildThresholdDict \/ SetThreshold

SpecThreshold == InitThreshold /\ [][NextThreshold]_vars

----------------------------------------------------------------------------
(* SpecMatrix: one call of loadInteractionsMatrix on a file of up to       *)
(* MaxRows rows after the header                                           *)

MaxRows == 2

\* the values of the file's fourth column
FileSeverities == {"LOW", "MEDIUM", "MODERATE", "HIGH", "VERY HIGH", "NEGLIGIBLE"}

\* a data row, or a blank line
MatrixRows ==
    {<<>>} \cup {<<hu, "", cp, v>> :
                    <<hu, cp, v>> \in {Label_Trawl, Label_TRAWL2}
                                       \X {Label_Reef, Label_re_efs}
                                       \X FileSeverities}

MatrixFiles ==
    {<<>>} \cup {<<matrix_header>> \o rows :
                    rows \in UNION {[1..n -> MatrixRows] : n \in 0..MaxRows}}

InitMatrix ==
    /\ ConfigDefault
    /\ inclusion_matrix = <<>>
    /\ probe \in [file : MatrixFiles]
    /\ included = FALSE
    /\ ScoreIdle
    /\ mpa_fc = <<>>
    /\ layer_i = 0
    /\ GeometryIdle
    /\ PipelineIdle
    /\ LoadIdle
    /\ pc = "loadInteractionsMatrix"

CallLoadInteractionsMatrix ==
    /\ pc = "loadInteractionsMatrix"
    /\ IF loadInteractionsMatrix_error(probe.file) = "none"
       THEN /\ imatrix' = loadInteractionsMatrix(probe.file)
            /\ pc' = "matrix_returned"
            /\ error' = "none"
       ELSE /\ imatrix' = imatrix
            /\ pc' = "aborted"
            /\ error' = loadInteractionsMatrix_error(probe.file)
    /\ UNCHANGED <<loadVars, configVars, probeVars, scoreVars, mpa_fc, layer_i, geometryVars,
                   hu_in_mpas, cp_in_mpas, percent_overlap,
                   cp_in_mpa_i, o_table_1, o_table_2, written, completed>>

NextMatrix == CallLoadInteractionsMatrix

SpecMatrix == InitMatrix /\ [][NextMatrix]_vars

----------------------------------------------------------------------------
(* Claims *)

\* the matrix cell shouldInclude reads, "None" when the MPA or the layer
\* has no entry
ProbeCell ==
    IF probe.mpa \in DOMAIN inclusion_matrix
       /\ probe.fc \in DOMAIN inclusion_matrix[probe.mpa]
    THEN inclusion_matrix[probe.mpa][probe.fc]
    ELSE "None"

ProbeThresholdTest ==
    probe.pct_in_mpa[1] * probe.threshold[2] > probe.threshold[1] * probe.pct_in_mpa[2]

\* C1: shouldInclude follows the override truth table: Y with override_y
\* off includes, N with override_n off excludes, U follows override_u when
\* it is set, and every other case (an overridden Y or N, U with override_u
\* unset, a blank cell, an absent MPA or layer) is the strict test
\* pct > threshold.
C1_TruthTable ==
    pc = "returned" =>
        included =
            CASE ProbeCell = "Y" /\ ~override_y -> TRUE
              [] ProbeCell = "Y" /\ override_y -> ProbeThresholdTest
              [] ProbeCell = "N" /\ ~override_n -> FALSE
              [] ProbeCell = "N" /\ override_n -> ProbeThresholdTest
              [] ProbeCell = "U" /\ override_u = "True" -> TRUE
              [] ProbeCell = "U" /\ override_u = "False" -> FALSE
              [] ProbeCell = "U" /\ override_u = "None" -> ProbeThresholdTest
              [] ProbeCell = "None" -> ProbeThresholdTest

C1_Witness ==
    /\ pc = "returned"
    /\ probe.mpa \in DOMAIN inclusion_matrix
    /\ ProbeCell = "Y"
    /\ override_y
    /\ probe.pct_in_mpa = probe.threshold
    /\ ~included

NumberOf(l, v) == Cardinality({k \in 1..Len(l) : l[k] = v})

\* C2: countInteractions returns the numbers of HIGH, MODERATE and LOW
\* entries of the list, and the score is 0.00 if there is a HIGH or more
\* than two MODERATE, else 0.24 for two MODERATE, 0.60 for one, 0.85 if
\* there is a LOW, else 1.00.
C2_StepwiseScore ==
    pc = "score" =>
        LET h == NumberOf(i_list, "HIGH")
            m == NumberOf(i_list, "MODERATE")
            l == NumberOf(i_list, "LOW")
        IN  /\ counts = <<h, m, l>>
            /\ eff_score = IF h > 0 \/ m > 2 THEN <<0, 100>>
                           ELSE IF m = 2 THEN <<24, 100>>
                           ELSE IF m = 1 THEN <<60, 100>>
                           ELSE IF l > 0 THEN <<85, 100>>
                           ELSE <<100, 100>>

C2_Witness ==
    /\ pc = "score"
    /\ i_list = <<"MODERATE", "NEGLIGIBLE", "LOW", "MODERATE">>
    /\ counts = <<0, 2, 1>>
    /\ eff_score = <<24, 100>>

\* C3: appending any entry to an interaction list never raises the score,
\* and the scores of {HIGH}, {MODERATE, MODERATE}, {MODERATE}, {LOW}, {}
\* are 0.00 <= 0.24 <= 0.60 <= 0.85 <= 1.00.
C3_Monotone ==
    /\ [][RatLE(eff_score', eff_score)]_vars
    /\ [](pc = "score" =>
            /\ i_list = <<"HIGH">> => RatEq(eff_score, <<0, 100>>)
            /\ i_list = <<"MODERATE", "MODERATE">> => RatEq(eff_score, <<24, 100>>)
            /\ i_list = <<"MODERATE">> => RatEq(eff_score, <<60, 100>>)
            /\ i_list = <<"LOW">> => RatEq(eff_score, <<85, 100>>)
            /\ i_list = <<>> => RatEq(eff_score, <<100, 100>>))

C3_Witness ==
    /\ pc = "score"
    /\ i_list = <<"LOW", "MODERATE", "MODERATE">>
    /\ eff_score = <<24, 100>>

\* what the map document says of an MPA, read off the input layers
WholeMPAArea(mpa) ==
    (CHOOSE m \in {mpas_merged[k] : k \in 1..Len(mpas_merged)} : m.NAME_E = mpa).area

SectionArea(mpa, ecosect) ==
    SumSeq([k \in 1..Len(mpa_ecosect_intersect) |->
        IF mpa_ecosect_intersect[k].NAME_E = mpa
           /\ mpa_ecosect_intersect[k].ecosection = ecosect
        THEN mpa_ecosect_intersect[k].area ELSE 0])

\* the clipped and scaled area of the intersect pieces that satisfy a test
ClippedIn(mpa, ecosects) ==
    SumSeq([k \in 1..Len(intersected) |->
        IF intersected[k].NAME_E = mpa /\ intersected[k].ecosection \in ecosects
        THEN intersected[k].shape_area * intersected[k].etp_scaling ELSE 0])

AllEcosections == {ecosections[k] : k \in 1..Len(ecosections)}

InPresence(mpa, ecosect) ==
    mpa \in DOMAIN mpa_presence /\ ecosect \in DOMAIN mpa_presence[mpa]

\* C6: on every dissolved row, fraction-of-MPA-total is the clipped and
\* scaled area of the MPA's pieces in all its ecosections over the whole-MPA
\* area, and a row is in the presence map exactly when shouldInclude accepts
\* that fraction.
C6_FractionOfMPATotal ==
    pc = "presence_returned" =>
        \A key \in DOMAIN processed_layer :
            LET fraction == <<ClippedIn(key[1], AllEcosections), WholeMPAArea(key[1])>>
            IN  /\ RatEq(processed_layer[key].pct_of_mpa_Total, fraction)
                /\ InPresence(key[1], key[2]) <=>
                       shouldInclude(fraction, layer_threshold(layer_list[layer_i]),
                                     inclusion_matrix, layer_list[layer_i], key[1])

\* two rows of one MPA, each at or below the threshold, together above it,
\* and included by the threshold test
C6_Witness ==
    /\ pc = "presence_returned"
    /\ inclusion_matrix = <<>>
    /\ {<<"Alpha", "Hecate Strait">>, <<"Alpha", "Dixon Entrance">>} \subseteq DOMAIN processed_layer
    /\ processed_layer[<<"Alpha", "Hecate Strait">>].etp_ac_area_adj = 3
    /\ processed_layer[<<"Alpha", "Dixon Entrance">>].etp_ac_area_adj = 3
    /\ InPresence("Alpha", "Hecate Strait")
    /\ InPresence("Alpha", "Dixon Entrance")

\* C7 as claimed: the per-row fraction-of-MPA is the row's clipped area over
\* the area of the MPA within the row's ecosection, and fraction-of-total is
\* the clipped area over the layer's pre-clip total area.
C7_PerEcosectionFraction ==
    pc = "presence_returned" =>
        \A key \in DOMAIN processed_layer :
            LET clipped == ClippedIn(key[1], {key[2]})
            IN  /\ RatEq(processed_layer[key].pct_of_mpa,
                         <<clipped, SectionArea(key[1], key[2])>>)
                /\ RatEq(processed_layer[key].pct_of_total,
                         <<clipped, SumSeq(FeatureAreas(layer_list[layer_i]))>>)

\* C7 amended: the per-row fraction-of-MPA, and the presence record's
\* pct_in_mpa, is the row's clipped area over the whole-MPA area;
\* fraction-of-total is the clipped area over the layer's pre-clip total.
C7_WholeMPAFraction ==
    pc = "presence_returned" =>
        \A key \in DOMAIN processed_layer :
            LET clipped == ClippedIn(key[1], {key[2]})
            IN  /\ RatEq(processed_layer[key].pct_of_mpa,
                         <<clipped, WholeMPAArea(key[1])>>)
                /\ RatEq(processed_layer[key].pct_of_total,
                         <<clipped, SumSeq(FeatureAreas(layer_list[layer_i]))>>)
                /\ InPresence(key[1], key[2]) =>
                       /\ mpa_presence[key[1]][key[2]].pct_in_mpa
                              = processed_layer[key].pct_of_mpa
                       /\ mpa_presence[key[1]][key[2]].pct_of_total
                              = processed_layer[key].pct_of_total

\* a row of an MPA that spans two ecosections, in the presence map
C7_Witness ==
    /\ pc = "presence_returned"
    /\ InPresence("Alpha", "Dixon Entrance")
    /\ mpa_presence["Alpha"]["Dixon Entrance"].clip_area = 6
    /\ mpa_presence["Alpha"]["Dixon Entrance"].pct_in_mpa = <<6, 100>>
    /\ SectionArea("Alpha", "Dixon Entrance") = 40

Done(stage) == \E k \in 1..Len(completed) : completed[k] = stage

\* the (MPA, ecosection, CP) triples of a three-level dict
Triples(d) ==
    UNION {UNION {{<<mpa, ecosect, cp>> : cp \in DOMAIN d[mpa][ecosect]} :
                    ecosect \in DOMAIN d[mpa]} : mpa \in DOMAIN d}

\* the severity the interaction matrix records for a CP layer and an HU layer
Severity(cp, hu) ==
    IF cp[4] \in DOMAIN imatrix /\ hu[3] \in DOMAIN imatrix[cp[4]]
    THEN imatrix[cp[4]][hu[3]] ELSE "None"

\* C4: once Table 1 is prepared, a CP included in an MPA in which no HU is
\* present has effectiveness score 1.0 and a Table 1 entry whose pct_of_og
\* is its clipped area over its original total area.
C4_NoHUScoresOne ==
    Done("prepareOutputTable1") =>
        \A t \in Triples(cp_in_mpas) :
            t[1] \notin DOMAIN hu_in_mpas =>
                /\ t[1] \in DOMAIN cp_in_mpa_i
                /\ t[3] \in DOMAIN cp_in_mpa_i[t[1]]
                /\ RatEq(cp_in_mpa_i[t[1]][t[3]].eff_score, <<1, 1>>)
                /\ t \in Triples(o_table_1)
                /\ RatEq(o_table_1[t[1]][t[2]][t[3]].pct_of_og,
                         <<cp_in_mpas[t[1]][t[2]][t[3]].clip_area,
                           cp_in_mpas[t[1]][t[2]][t[3]].orig_area>>)

\* C5: on every Table 1 entry scaled_area is the (MPA, CP) score times the
\* presence record's clipped area and pct_of_og is scaled_area over the
\* CP's original total area; with an HU of severity HIGH present in the MPA
\* scaled_area, pct_of_mpa and pct_of_og are 0.
C5_ScaledByScore ==
    Done("prepareOutputTable1") =>
        \A t \in Triples(o_table_1) :
            LET entry == o_table_1[t[1]][t[2]][t[3]]
                presence == cp_in_mpas[t[1]][t[2]][t[3]]
                score == cp_in_mpa_i[t[1]][t[3]].eff_score
            IN  /\ score # <<>>
                /\ RatEq(entry.scaled_area, <<score[1] * presence.clip_area, score[2]>>)
                /\ RatEq(entry.pct_of_og,
                         <<entry.scaled_area[1], entry.scaled_area[2] * presence.orig_area>>)
                /\ (\E hu \in DOMAIN hu_in_mpas[t[1]] : Severity(t[3], hu) = "HIGH") =>
                       /\ RatEq(entry.scaled_area, <<0, 1>>)
                       /\ RatEq(entry.pct_of_mpa, <<0, 1>>)
                       /\ RatEq(entry.pct_of_og, <<0, 1>>)

\* the spec's scenario: reef clipped to 6 in Alpha, trawl present with HIGH
C5_Witness ==
    /\ Done("prepareOutputTable1")
    /\ <<"Alpha", "Hecate Strait", CP_reef>> \in Triples(o_table_1)
    /\ HU_trawl \in DOMAIN hu_in_mpas["Alpha"]
    /\ Severity(CP_reef, HU_trawl) = "HIGH"
    /\ o_table_1["Alpha"]["Hecate Strait"][CP_reef].uscaled_area = 6
    /\ o_table_1["Alpha"]["Hecate Strait"][CP_reef].scaled_area[1] = 0

\* C8 as claimed: pct_of_mpa is the scaled area over the area of the MPA
\* inside the entry's ecosection.
C8_DividedBySectionArea ==
    Done("prepareOutputTable1") =>
        \A t \in Triples(o_table_1) :
            LET entry == o_table_1[t[1]][t[2]][t[3]]
            IN  RatEq(entry.pct_of_mpa,
                      <<entry.scaled_area[1],
                        entry.scaled_area[2] * SectionArea(t[1], t[2])>>)

\* C8 amended: pct_of_mpa is the scaled area over the whole-MPA area, which
\* is what the entry's mpa_area holds.
C8_DividedByWholeMPAArea ==
    Done("prepareOutputTable1") =>
        \A t \in Triples(o_table_1) :
            LET entry == o_table_1[t[1]][t[2]][t[3]]
            IN  /\ entry.mpa_area = WholeMPAArea(t[1])
                /\ RatEq(entry.pct_of_mpa,
                         <<entry.scaled_area[1],
                           entry.scaled_area[2] * WholeMPAArea(t[1])>>)

\* an entry with a non-zero score in an MPA that spans two ecosections
C8_Witness ==
    /\ Done("prepareOutputTable1")
    /\ <<"Alpha", "Dixon Entrance", CP_reef>> \in Triples(o_table_1)
    /\ o_table_1["Alpha"]["Dixon Entrance"][CP_reef].scaled_area[1] > 0
    /\ RatEq(o_table_1["Alpha"]["Dixon Entrance"][CP_reef].pct_of_mpa, <<6, 100>>)
    /\ SectionArea("Alpha", "Dixon Entrance") = 40
    /\ WholeMPAArea("Alpha") = 100

SubregionCodes == {"CC", "NC", "NCVI", "HG"}

\* the Table 1 entries of a CP whose MPA is assigned to a subregion
EntriesIn(cp, subregion) ==
    {t \in Triples(o_table_1) :
        t[3] = cp /\ o_table_1[t[1]][t[2]][t[3]].subregion = subregion}

\* C9: Table 2 has, for every CP and subregion code with an entry, the sum
\* of the CP's scaled areas over the Table 1 entries of the MPAs assigned to
\* that subregion, divided by the CP's original area, and writeOutputTable2
\* raises no error.
C9_Table2BySubregion ==
    /\ error # "ValueError"
    /\ Done("createOutputTable2") =>
          \A cp \in {t[3] : t \in Triples(o_table_1)} :
              \A subregion \in SubregionCodes :
                  EntriesIn(cp, subregion) # {} =>
                      /\ cp \in DOMAIN o_table_2
                      /\ subregion \in DOMAIN o_table_2[cp]
                      /\ RatEq(o_table_2[cp][subregion].pct,
                               RatDiv(RatSumSet([t \in EntriesIn(cp, subregion) |->
                                                    o_table_1[t[1]][t[2]][t[3]].scaled_area],
                                                EntriesIn(cp, subregion)),
                                      Rat(SumSeq(FeatureAreas(cp)))))

\* C10 as claimed: a file is written only after interaction identification,
\* Table 1 preparation and Table 2 creation have all completed, and an
\* aborted run has written none.
C10_NoWriteBeforeAllStages ==
    /\ (\E f \in OutputFiles : written[f] # "absent") =>
           /\ Done("identifyInteractions")
           /\ Done("prepareOutputTable1")
           /\ Done("createOutputTable2")
    /\ pc = "aborted" => \A f \in OutputFiles : written[f] = "absent"

\* C10 amended: each file is written only after the stages before its own
\* write statement: Table 1 after identification and Table 1 preparation,
\* Table 2 after Table 1 is written and Table 2 created, Table 3 after
\* Table 2 is written; a run that aborts before Table 1 is prepared has
\* written none.
C10_WrittenAfterOwnStages ==
    /\ written["table1"] # "absent" =>
           Done("identifyInteractions") /\ Done("prepareOutputTable1")
    /\ written["table2"] # "absent" =>
           Done("writeOutputTable1") /\ Done("createOutputTable2")
    /\ written["table3"] # "absent" => Done("writeOutputTable2")
    /\ (pc = "aborted" /\ ~Done("prepareOutputTable1")) =>
           \A f \in OutputFiles : written[f] = "absent"

\* Table 1 is on disk and Table 2 is not yet created
C10_Witness ==
    /\ pc = "createOutputTable2"
    /\ written["table1"] = "complete"
    /\ written["table2"] = "absent"
    /\ ~Done("createOutputTable2")
    /\ Triples(o_table_1) # {}

\* the Table 1 cells prepareOutputTable1 computes whose MPA area or original
\* area is zero
ZeroDenominators ==
    {t \in Triples(cp_in_mpas) :
        /\ t[1] \in DOMAIN cp_in_mpa_i
        /\ t[2] \in {ecosections[k] : k \in 1..Len(ecosections)}
        /\ \/ cp_in_mpas[t[1]][t[2]][t[3]].mpa_area = 0
           \/ cp_in_mpas[t[1]][t[2]][t[3]].orig_area = 0}

Present(hu_map, mpa, hu) == mpa \in DOMAIN hu_map /\ hu \in DOMAIN hu_map[mpa]

\* the (MPA, HU) cells of the inclusion matrix that call for an injection
InjectingCells ==
    {q \in UNION {{<<mpa, hu>> : hu \in DOMAIN inclusion_matrix[mpa]} :
                    mpa \in DOMAIN inclusion_matrix} :
        \/ inclusion_matrix[q[1]][q[2]] = "Y"
        \/ inclusion_matrix[q[1]][q[2]] = "U" /\ override_u = "True"}

PairsOf(hu_map) ==
    UNION {{<<mpa, hu>> : hu \in DOMAIN hu_map[mpa]} : mpa \in DOMAIN hu_map}

CPsOf(mpa) == UNION {DOMAIN cp_in_mpas[mpa][ecosection] : ecosection \in DOMAIN cp_in_mpas[mpa]}

\* the HU layers present in an MPA for which the matrix holds a value v for
\* the CP
HUsWith(mpa, cp, v) == {hu \in DOMAIN hu_in_mpas[mpa] : Severity(cp, hu) = v}

\* C13: once identifyInteractions has returned, every MPA in both maps has
\* exactly the CPs present in any of its ecosections, and the interaction
\* list of each holds, for every matrix value, as many entries as there are
\* HU layers in the MPA with that value for the CP, and nothing else,
\* however many ecosections the CP is in.
C13_OncePerMPA ==
    Done("identifyInteractions") =>
        /\ DOMAIN cp_in_mpa_i = DOMAIN hu_in_mpas \cap DOMAIN cp_in_mpas
        /\ \A mpa \in DOMAIN cp_in_mpa_i :
               /\ DOMAIN cp_in_mpa_i[mpa] = CPsOf(mpa)
               /\ \A cp \in CPsOf(mpa) :
                      LET l == cp_in_mpa_i[mpa][cp].interactions
                      IN  /\ \A v \in MatrixValues :
                                 NumberOf(l, v) = Cardinality(HUsWith(mpa, cp, v))
                          /\ Len(l) = Cardinality(DOMAIN hu_in_mpas[mpa]
                                                    \ HUsWith(mpa, cp, "None"))

\* reef is in two ecosections of Alpha with trawl and anchor both present
\* and both in the matrix: two entries, not four
C13_Witness ==
    /\ Done("identifyInteractions")
    /\ Present(cp_in_mpas, "Alpha", "Hecate Strait")
    /\ Present(cp_in_mpas, "Alpha", "Dixon Entrance")
    /\ Present(hu_in_mpas, "Alpha", HU_trawl)
    /\ Present(hu_in_mpas, "Alpha", HU_anchor)
    /\ Severity(CP_reef, HU_trawl) = "HIGH"
    /\ Severity(CP_reef, HU_anchor) = "LOW"
    /\ Len(cp_in_mpa_i["Alpha"][CP_reef].interactions) = 2

\* every layer name identifyInteractions looks up has its key segment
KeysExist ==
    \A mpa \in DOMAIN hu_in_mpas \cap DOMAIN cp_in_mpas :
        /\ \A hu \in DOMAIN hu_in_mpas[mpa] : Len(hu) >= 3
        /\ \A cp \in CPsOf(mpa) : Len(cp) >= 4

\* C14: with layer names that have their key segments, identifyInteractions
\* returns whatever the matrix lacks; a CP for which no HU of the MPA has a
\* matrix entry, because the CP key has no row or the HU key is not in the
\* row, has an empty interaction list, and Table 1 scores it 1.0.
C14_MissingEntryNoError ==
    /\ (KeysExist /\ pc # "identifyInteractions") => Done("identifyInteractions")
    /\ Done("identifyInteractions") =>
           \A mpa \in DOMAIN cp_in_mpa_i : \A cp \in DOMAIN cp_in_mpa_i[mpa] :
               (\A hu \in DOMAIN hu_in_mpas[mpa] :
                     \/ cp[4] \notin DOMAIN imatrix
                     \/ hu[3] \notin DOMAIN imatrix[cp[4]]) =>
                   cp_in_mpa_i[mpa][cp].interactions = <<>>
    /\ Done("prepareOutputTable1") =>
           \A t \in Triples(o_table_1) :
               cp_in_mpa_i[t[1]][t[3]].interactions = <<>> =>
                   /\ RatEq(cp_in_mpa_i[t[1]][t[3]].eff_score, <<1, 1>>)
                   /\ RatEq(o_table_1[t[1]][t[2]][t[3]].scaled_area,
                            <<o_table_1[t[1]][t[2]][t[3]].uscaled_area, 1>>)

\* the matrix has a row for reef without trawl, trawl is the only HU in
\* Alpha, and reef is scored 1.0
C14_Witness ==
    /\ Done("prepareOutputTable1")
    /\ "reef" \in DOMAIN imatrix
    /\ DOMAIN imatrix["reef"] = {"anchor"}
    /\ DOMAIN hu_in_mpas = {"Alpha"}
    /\ DOMAIN hu_in_mpas["Alpha"] = {HU_trawl}
    /\ cp_in_mpa_i["Alpha"][CP_reef].interactions = <<>>
    /\ cp_in_mpa_i["Alpha"][CP_reef].eff_score = <<100, 100>>

\* C15: after loadInteractionsMatrix every stored value is LOW, MODERATE or
\* HIGH, MEDIUM being stored as MODERATE and VERY HIGH as HIGH, and the
\* keys are the normalized labels of the data rows, the header giving none.
C15_StoredSeverities ==
    pc = "matrix_returned" =>
        /\ \A cp \in DOMAIN imatrix : \A hu \in DOMAIN imatrix[cp] :
               imatrix[cp][hu] \in Severities
        /\ PairsOf(imatrix) =
               {<<Str(normalize(probe.file[k][3])), Str(normalize(probe.file[k][1]))>> :
                   k \in 2..Len(probe.file)}

\* the (MPA, ecosection) pairs with a piece of the layer: the dissolved rows
DissolvedKeys ==
    {<<intersected[k].NAME_E, intersected[k].ecosection>> : k \in 1..Len(intersected)}

\* C16: calculate_presence returns a presence record for a dissolved row
\* exactly when shouldInclude accepted the row, and a sliver entry for
\* every MPA with a dissolved row, included or not, holding the MPA's raw
\* fraction-of-MPA-total; so every MPA of the presence map is in the
\* sliver map.
C16_PresenceAndSlivers ==
    pc = "presence_returned" =>
        /\ PairsOf(mpa_presence) =
               {key \in DissolvedKeys :
                   shouldInclude(processed_layer[key].pct_of_mpa_Total,
                                 layer_threshold(layer_list[layer_i]),
                                 inclusion_matrix, layer_list[layer_i], key[1])}
        /\ DOMAIN sliver_freq = {key[1] : key \in DissolvedKeys}
        /\ \A mpa \in DOMAIN sliver_freq :
               RatEq(sliver_freq[mpa].pct_overlap_cphu_mpa,
                     <<ClippedIn(mpa, AllEcosections), WholeMPAArea(mpa)>>)
        /\ DOMAIN mpa_presence \subseteq DOMAIN sliver_freq

\* Alpha has a row that was not included and Beta one that was: both are
\* in the sliver map
C16_Witness ==
    /\ pc = "presence_returned"
    /\ "Alpha" \in DOMAIN sliver_freq
    /\ "Alpha" \notin DOMAIN mpa_presence
    /\ "Beta" \in DOMAIN sliver_freq
    /\ "Beta" \in DOMAIN mpa_presence
    /\ RatEq(sliver_freq["Alpha"].pct_overlap_cphu_mpa, <<3, 100>>)

\* the field the scaling file names for the layer being loaded, "None" if it
\* names none
NamedInFile ==
    IF scaling_attribute_file # None
       /\ \E k \in 1..Len(scaling_attribute_file[1]) :
              scaling_attribute_file[1][k][1] = probe.layer
    THEN scaling_attribute_file[1][CHOOSE k \in 1..Len(scaling_attribute_file[1]) :
                                       scaling_attribute_file[1][k][1] = probe.layer][2]
    ELSE "None"

\* C17: for every layer, complex or not, loadLayer copies into etp_scaling
\* the field the scaling file names for the layer, else the configured
\* scaling attribute, in each case only if the layer has that field, and
\* else the constant 1; and it returns the layer's original name.
C17_ScalingResolution ==
    pc = "layer_loaded" =>
        /\ loaded.name = probe.layer
        /\ loaded.etp_scaling =
               IF NamedInFile # "None"
               THEN (IF NamedInFile \in probe.fields THEN NamedInFile ELSE "1")
               ELSE IF scaling_attribute # "None" /\ scaling_attribute \in probe.fields
                    THEN scaling_attribute ELSE "1"

\* C18: with scaling_attribute and scaling_attribute_file both set the run
\* stops with a configuration error before the scaling file is used and
\* before a layer is loaded.
C18_BothSetAborts ==
    (scaling_attribute # "None" /\ scaling_attribute_file # None) =>
        /\ pc \in {"buildScalingDict", "aborted"}
        /\ pc = "aborted" => error = "ConfigurationError"
        /\ scaling_dict = None
        /\ loaded = <<>>

\* an MPA layer of the map document has no field named in mpa_name_fields
LacksNameField == \E k \in 1..Len(mpa_layers) : mpa_layers[k] \cap mpa_name_fields = {}

\* C19: when an MPA layer has no recognized name field the run never gets
\* past prepareMPAs: it ends there with an error, no MPA layer is produced,
\* no layer's presence is computed and no output file is written.
C19_NoNameFieldAborts ==
    LacksNameField =>
        /\ pc \in {"prepareMPAs", "aborted"}
        /\ pc = "aborted" => (error = "ValueError" /\ completed = <<>>)
        /\ mpa_fc = <<>>
        /\ intersected = <<>> /\ processed_layer = <<>>
        /\ hu_in_mpas = <<>> /\ cp_in_mpas = <<>> /\ percent_overlap = <<>>
        /\ \A f \in OutputFiles : written[f] = "absent"

\* the second layer spells its name field name_e and the run has stopped
C19_Witness ==
    /\ mpa_layers[2] \cap mpa_name_fields = {}
    /\ mpa_layers[1] \cap mpa_name_fields # {}
    /\ pc = "aborted"
    /\ error = "ValueError"
    /\ completed = <<>>

\* geometry work has been done: the MPA layers are prepared or a layer has
\* been intersected with them
GeometryDone == mpa_fc # <<>> \/ intersected # <<>> \/ processed_layer # <<>>

\* the exceptions the csv readers raise on a malformed file
ParseErrors == {"StopIteration", "IndexError"}

\* C20 as claimed: geometry work is done only after the inclusion matrix
\* and the interaction matrix have been read, and a run a malformed file
\* ends has done no geometry work.
C20_InputsBeforeGeometry ==
    /\ GeometryDone => (Done("readInputs") /\ Done("loadInteractionsMatrix"))
    /\ (pc = "aborted" /\ error \in ParseErrors /\ ~Done("identifyInteractions")) =>
           ~GeometryDone

\* C20 amended: the inclusion matrix is read after the MPA layers are
\* prepared and before any HU or CP layer is intersected; the interaction
\* matrix is read after every layer is processed and injected and before
\* the interactions are identified; a malformed inclusion matrix ends the
\* run with the MPA layers prepared and no layer intersected, a malformed
\* interaction matrix ends it with all layers processed, and either way no
\* output file is written.
C20_InputsReadInScriptOrder ==
    /\ Done("readInputs") => mpa_fc # <<>>
    /\ (intersected # <<>> \/ processed_layer # <<>>) => Done("readInputs")
    /\ Done("loadInteractionsMatrix") => (Done("layers") /\ Done("inject"))
    /\ cp_in_mpa_i # <<>> => Done("loadInteractionsMatrix")
    /\ Done("identifyInteractions") => Done("loadInteractionsMatrix")
    /\ (pc = "aborted" /\ error \in ParseErrors /\ ~Done("readInputs")) =>
           /\ mpa_fc # <<>>
           /\ intersected = <<>> /\ hu_in_mpas = <<>> /\ cp_in_mpas = <<>>
           /\ \A f \in OutputFiles : written[f] = "absent"
    /\ (pc = "aborted" /\ error \in ParseErrors /\ Done("readInputs")
           /\ ~Done("identifyInteractions")) =>
           /\ Done("layers") /\ Done("inject") /\ ~Done("loadInteractionsMatrix")
           /\ mpa_fc # <<>> /\ layer_i = Len(layer_list) + 1
           /\ \A f \in OutputFiles : written[f] = "absent"

\* a blank line in the interaction matrix has ended the run after the
\* layers were intersected and presence was found
C20_Witness ==
    /\ pc = "aborted"
    /\ error = "IndexError"
    /\ Done("inject")
    /\ ~Done("loadInteractionsMatrix")
    /\ intersected # <<>>
    /\ hu_in_mpas # <<>>
    /\ \A f \in OutputFiles : written[f] = "absent"

\* the threshold file lists the layer of the probe; the last row for it
ListedRow ==
    IF layer_presence_threshold_file = None THEN 0
    ELSE LET rows == layer_presence_threshold_file[1]
             listing == {k \in 1..Len(rows) : rows[k][1] = probe.layer}
         IN  IF listing = {} THEN 0 ELSE CHOOSE k \in listing : \A j \in listing : j <= k

\* C21 as claimed: a well-formed threshold file never ends the run, and the
\* threshold set for a layer is the file's value for it when the file lists
\* it and the default of its type otherwise.
C21_ThresholdFromFileOrDefault ==
    /\ pc # "aborted"
    /\ pc = "threshold_set" =>
           IF ListedRow = 0
           THEN lyr_threshold = Some(layer_threshold(probe.layer))
           ELSE lyr_threshold = Some(layer_presence_threshold_file[1][ListedRow][2])

OverlapsOf(name) ==
    {k \in 1..Len(probe.sub_rows) :
        probe.sub_rows[k].NAME_E = name /\ probe.sub_rows[k].Shape_Area > 0}

\* the first of the rows of an MPA whose area no other row of it exceeds
FirstLargest(name) ==
    CHOOSE k \in OverlapsOf(name) :
        /\ \A j \in OverlapsOf(name) :
              probe.sub_rows[j].Shape_Area <= probe.sub_rows[k].Shape_Area
        /\ \A j \in OverlapsOf(name) :
              probe.sub_rows[j].Shape_Area = probe.sub_rows[k].Shape_Area => k <= j

\* C23: every MPA prepareMPAs returns has the subregion of its largest
\* overlap, of the first such row when several have that area, and no
\* subregion when it has no overlap of positive area.
C23_LargestOverlapSubregion ==
    pc = "mpas_prepared" =>
        \A key \in DOMAIN mpa_fc :
            mpa_fc[key].subregion_mpa =
                IF OverlapsOf(key[1]) = {} THEN "None"
                ELSE probe.sub_rows[FirstLargest(key[1])].subregion

\* Alpha overlaps two subregions with the same largest area and got the
\* first; Beta has only a row of zero area and got none
C23_Witness ==
    /\ pc = "mpas_prepared"
    /\ \E j, k \in OverlapsOf("Alpha") :
          /\ j < k
          /\ j = FirstLargest("Alpha")
          /\ probe.sub_rows[j].Shape_Area = probe.sub_rows[k].Shape_Area
          /\ probe.sub_rows[j].subregion # probe.sub_rows[k].subregion
          /\ mpa_fc[<<"Alpha", "Hecate Strait">>].subregion_mpa = probe.sub_rows[j].subregion
    /\ \E k \in 1..Len(probe.sub_rows) : probe.sub_rows[k].NAME_E = "Beta"
    /\ OverlapsOf("Beta") = {}
    /\ mpa_fc[<<"Beta", "Hecate Strait">>].subregion_mpa = "None"

\* the dissolved rows of an MPA
RowsOf(mpa) == {key \in DissolvedKeys : key[1] = mpa}

\* C24: in the presence map of one call, either all the (MPA, ecosection)
\* rows of an MPA are retained or none of them is.
C24_UniformPerMPA ==
    pc = "presence_returned" =>
        \A mpa \in {key[1] : key \in DissolvedKeys} :
            \/ RowsOf(mpa) \subseteq PairsOf(mpa_presence)
            \/ RowsOf(mpa) \cap PairsOf(mpa_presence) = {}

\* Alpha has a row in each of two ecosections, the one of 6% and the
\* other of 3% of the MPA, and both are retained under the 5% threshold
C24_Witness ==
    /\ pc = "presence_returned"
    /\ inclusion_matrix = <<>>
    /\ ClippedIn("Alpha", {"Hecate Strait"}) = 6
    /\ ClippedIn("Alpha", {"Dixon Entrance"}) = 3
    /\ DOMAIN mpa_presence["Alpha"] = {"Hecate Strait", "Dixon Entrance"}

\* the (MPA, HU layer) pairs the layer loop found a dissolved row for and
\* shouldInclude rejected
Rejected ==
    {q \in UNION {{<<mpa, hu>> : hu \in DOMAIN Get(percent_overlap[mpa], "hu")} :
                    mpa \in DOMAIN percent_overlap} :
        ~shouldInclude(percent_overlap[q[1]]["hu"][q[2]].pct_overlap_cphu_mpa,
                       layer_threshold(q[2]), inclusion_matrix, q[2], q[1])}

\* C25 as claimed: an HU layer shouldInclude rejected for an MPA is not in
\* the MPA's HU presence map once the injection is done, and the
\* interaction lists of the MPA's CPs hold no severity of it.
C25_DecisionRespected ==
    /\ Done("inject") => \A q \in Rejected : ~Present(hu_in_mpas, q[1], q[2])
    /\ Done("identifyInteractions") =>
           \A q \in Rejected : \A cp \in DOMAIN Get(cp_in_mpa_i, q[1]) :
               Len(cp_in_mpa_i[q[1]][cp].interactions) =
                   Cardinality({hu \in DOMAIN hu_in_mpas[q[1]] \ {q[2]} :
                                   Severity(cp, hu) # "None"})

\* the human uses present in an MPA for which the matrix holds a severity
\* for the CP: the interaction keys of the HU names
UsesWithSeverity(mpa, cp) ==
    {hu[3] : hu \in {h \in DOMAIN hu_in_mpas[mpa] : Severity(cp, h) # "None"}}

\* C26 as claimed: the interaction list of an (MPA, CP) pair holds at most
\* one severity for each distinct human use present in the MPA.
C26_OneSeverityPerUse ==
    Done("identifyInteractions") =>
        \A mpa \in DOMAIN cp_in_mpa_i : \A cp \in DOMAIN cp_in_mpa_i[mpa] :
            Len(cp_in_mpa_i[mpa][cp].interactions) <= Cardinality(UsesWithSeverity(mpa, cp))

\* C27 as claimed: once Table 1 is prepared, every (ecosection, CP)
\* presence record of an MPA of the interaction result has its Table 1
\* entry, whatever the ecosection is called, and every CP of the result
\* has its effectiveness score set.
C27_NoScoredPresenceLost ==
    Done("prepareOutputTable1") =>
        /\ \A t \in Triples(cp_in_mpas) :
               t[1] \in DOMAIN cp_in_mpa_i => t \in Triples(o_table_1)
        /\ \A mpa \in DOMAIN cp_in_mpa_i : \A cp \in DOMAIN cp_in_mpa_i[mpa] :
               cp_in_mpa_i[mpa][cp].eff_score # <<>>

====
